---- MODULE Spec2Model ----
(***************************************************************************)
(* A model of the chat application's orchestration core: the web search,   *)
(* the code execution tool and the tool orchestrator of                    *)
(* chat/services/agents.py, the provider layer and the provider manager of *)
(* chat/services/ai_provider.py and foundry_service.py, and the request    *)
(* handlers of chat/views.py over the relational store.                    *)
(*                                                                         *)
(* Python strings are sequences of one-character strings, so that `in`,    *)
(* lower(), strip(), startswith() and slicing are computed, not assumed.   *)
(***************************************************************************)
EXTENDS Integers, Sequences, FiniteSets, TLC

VARIABLES
    fs,          \* names of the temporary files that exist on disk
    exec,        \* the activation of CodeExecutionAgent.execute
    orch,        \* the activation of AgentOrchestrator.process_with_tools
    web,         \* the direct call of WebSearchAgent.search
    catalog,     \* what FoundryLocalManager.list_cached_models answers
    deployment,  \* AzureOpenAIProvider._deployment_name
    call,        \* the last call of a provider method and the requests it sent
    db,          \* the relational store: conversations, messages, files
    req,         \* the activation of a request handler of views.py
    env,         \* the environment variables of the process
    mgr,         \* the class attributes of AIProviderManager
    calls        \* the call of the manager each thread is in

toolVars == <<fs, exec, orch, web>>
provVars == <<catalog, deployment, call>>
viewVars == <<db, req>>
mgrVars == <<env, mgr, calls>>
vars == <<toolVars, provVars, viewVars, mgrVars>>

(***************************************************************************)
(* Bounds of the model.                                                    *)
(***************************************************************************)
\* Temporary files that may be left on disk before no further call starts.
MaxFiles == 2

(***************************************************************************)
(* Python str operations.                                                  *)
(***************************************************************************)
\* The backtick, which a TLA+ string cannot hold.
BT == "backtick"

UpperCase == <<"A","B","C","D","E","F","G","H","I","J","K","L","M","N","O","P","Q","R","S","T","U","V","W","X","Y","Z">>
LowerCase == <<"a","b","c","d","e","f","g","h","i","j","k","l","m","n","o","p","q","r","s","t","u","v","w","x","y","z">>
Digits == <<"0","1","2","3","4","5","6","7","8","9">>
Whitespace == {" ", "\t", "\n", "\r", "\f"}

LowerChar(c) ==
    IF \E i \in 1..Len(UpperCase) : UpperCase[i] = c
    THEN LowerCase[CHOOSE i \in 1..Len(UpperCase) : UpperCase[i] = c]
    ELSE c

\* str.lower()
lower(s) == [i \in 1..Len(s) |-> LowerChar(s[i])]

\* s[i:i+len(p)] == p, with i counted from 1
MatchAt(s, p, i) == i + Len(p) - 1 <= Len(s) /\ SubSeq(s, i, i + Len(p) - 1) = p

\* p in s
Contains(s, p) == \E i \in 1..(Len(s) + 1) : MatchAt(s, p, i)

\* s.index(p), counted from 1; only used where p in s
index(s, p) ==
    CHOOSE i \in 1..(Len(s) + 1) :
        MatchAt(s, p, i) /\ \A j \in 1..(i - 1) : ~MatchAt(s, p, j)

\* s.startswith(p)
startswith(s, p) == MatchAt(s, p, 1)

\* str.strip()
strip(s) ==
    LET keep == {i \in 1..Len(s) : s[i] \notin Whitespace}
    IN  IF keep = {} THEN <<>>
        ELSE SubSeq(s, CHOOSE i \in keep : \A j \in keep : i <= j,
                       CHOOSE i \in keep : \A j \in keep : i >= j)

\* str.rstrip(), as the trailing \s* of a pattern gives it back
rstrip(s) ==
    LET keep == {i \in 1..Len(s) : s[i] \notin Whitespace}
    IN  IF keep = {} THEN <<>>
        ELSE SubSeq(s, 1, CHOOSE i \in keep : \A j \in keep : i >= j)

\* str(n) for a natural number
RECURSIVE ToStr(_)
ToStr(n) == IF n < 10 THEN <<Digits[n + 1]>>
            ELSE ToStr(n \div 10) \o <<Digits[(n % 10) + 1]>>

(***************************************************************************)
(* CodeExecutionAgent                                                      *)
(***************************************************************************)
TIMEOUT_SECONDS == 10
MAX_OUTPUT_LENGTH == 5000

RESTRICTED_IMPORTS ==
    << <<"o","s",".","s","y","s","t","e","m">>, <<"s","u","b","p","r","o","c","e","s","s">>, <<"s","h","u","t","i","l",".","r","m","t","r","e","e">>,
       <<"e","v","a","l">>, <<"e","x","e","c">>, <<"c","o","m","p","i","l","e">>, <<"_","_","i","m","p","o","r","t","_","_">> >>

\* A denylist test that takes only the code that is the restricted name.
RestrictedPlain(restricted, code) == restricted = code

\* `restricted in code`: the test of the denylist loop
RestrictedIn(restricted, code) == Contains(code, restricted)

\* The denylist loop: the position of the first entry found in the code, 0 when
\* the loop ends without returning.
RECURSIVE ScanRestricted(_, _)
ScanRestricted(code, i) ==
    IF i > Len(RESTRICTED_IMPORTS) THEN 0
    ELSE IF RestrictedIn(RESTRICTED_IMPORTS[i], code) THEN i
    ELSE ScanRestricted(code, i + 1)

RefusedRecord(code, restricted) ==
    [success |-> FALSE,
     error   |-> <<"R","e","s","t","r","i","c","t","e","d"," ","o","p","e","r","a","t","i","o","n"," ","d","e","t","e","c","t","e","d",":"," ">> \o restricted,
     output  |-> <<>>,
     code    |-> code]

TimeoutRecord(code) ==
    [success |-> FALSE,
     error   |-> <<"C","o","d","e"," ","e","x","e","c","u","t","i","o","n"," ","t","i","m","e","d"," ","o","u","t"," ","a","f","t","e","r"," ">> \o ToStr(TIMEOUT_SECONDS)
                     \o <<" ","s","e","c","o","n","d","s">>,
     output  |-> <<>>,
     code    |-> code]

ExceptionRecord(code, msg) ==
    [success |-> FALSE, error |-> msg, output |-> <<>>, code |-> code]

Truncate(s, note) ==
    IF Len(s) > MAX_OUTPUT_LENGTH
    THEN SubSeq(s, 1, MAX_OUTPUT_LENGTH) \o note
    ELSE s

CompletedRecord(code, child) ==
    [success     |-> child.returncode = 0,
     output      |-> Truncate(child.stdout, <<"\n",".",".","."," ","(","o","u","t","p","u","t"," ","t","r","u","n","c","a","t","e","d",")">>),
     error       |-> Truncate(child.stderr, <<"\n",".",".","."," ","(","e","r","r","o","r"," ","t","r","u","n","c","a","t","e","d",")">>),
     return_code |-> child.returncode,
     code        |-> code]

\* The exception classes the body of execute can raise, each with the classes
\* it derives from.
ExceptionBases ==
    [TimeoutExpired     |-> {"TimeoutExpired", "SubprocessError", "Exception"},
     OSError            |-> {"OSError", "Exception"},
     FileNotFoundError  |-> {"FileNotFoundError", "OSError", "Exception"},
     UnicodeEncodeError |-> {"UnicodeEncodeError", "ValueError", "Exception"},
     TypeError          |-> {"TypeError", "Exception"},
     TimeoutException   |-> {"TimeoutException", "DDGSException", "Exception"},
     RatelimitException |-> {"RatelimitException", "DDGSException", "Exception"}]

\* The except clauses of execute, in order. escaped: no clause took it.
ExceptClauses(code, exc) ==
    IF "TimeoutExpired" \in ExceptionBases[exc.type]
    THEN [escaped |-> FALSE, result |-> TimeoutRecord(code)]
    ELSE IF "Exception" \in ExceptionBases[exc.type]
    THEN [escaped |-> FALSE, result |-> ExceptionRecord(code, exc.msg)]
    ELSE [escaped |-> TRUE, result |-> ExceptionRecord(code, exc.msg)]

\* A wait without a limit.
NeverExpires(elapsed) == FALSE

\* subprocess.run(..., timeout=TIMEOUT_SECONDS): the wait is over
TimeoutExpired(elapsed) == elapsed >= TIMEOUT_SECONDS

\* An output of one character more than MAX_OUTPUT_LENGTH.
LongOutput == [i \in 1..(MAX_OUTPUT_LENGTH + 1) |-> "y"]

\* What the child process may print and return.
ChildExits ==
    { [returncode |-> 0, stdout |-> <<"1","\n">>, stderr |-> <<>>],
      [returncode |-> 0, stdout |-> LongOutput, stderr |-> <<>>],
      [returncode |-> 0, stdout |-> <<>>, stderr |-> <<>>],
      [returncode |-> 1, stdout |-> <<>>, stderr |-> <<"N","a","m","e","E","r","r","o","r">>] }

\* Failures of the operating system under execute.
CreateErrors == { [type |-> "OSError", msg |-> <<"E","N","O","S","P","C">>] }
WriteErrors  == { [type |-> "OSError", msg |-> <<"E","N","O","S","P","C">>],
                  [type |-> "UnicodeEncodeError", msg |-> <<"s","u","r","r","o","g","a","t","e","s"," ","n","o","t"," ","a","l","l","o","w","e","d">>] }
SpawnErrors  == { [type |-> "FileNotFoundError", msg |-> <<"p","y","t","h","o","n">>] }

\* tempfile.NamedTemporaryFile picks a name no existing file has.
FreshName == CHOOSE n \in 1..(Cardinality(fs) + 1) : n \notin fs

ExecIdle ==
    [pc |-> "idle", caller |-> "none", code |-> <<>>, f_name |-> 0, temp_file |-> 0,
     created |-> 0, spawned |-> 0, elapsed |-> 0, escaped |-> FALSE,
     result |-> ExceptionRecord(<<>>, <<>>)]

\* execute(code) is entered.
EnterExecute(code, caller) ==
    [ExecIdle EXCEPT !.pc = "scan", !.caller = caller, !.code = code]

\* Lines 237-244: the denylist scan.
ExecScan ==
    /\ exec.pc = "scan"
    /\ LET hit == ScanRestricted(exec.code, 1)
       IN  exec' = IF hit # 0
                   THEN [exec EXCEPT !.pc = "ret",
                            !.result = RefusedRecord(exec.code, RESTRICTED_IMPORTS[hit])]
                   ELSE [exec EXCEPT !.pc = "create"]
    /\ UNCHANGED <<fs, orch, provVars, viewVars, mgrVars, web>>

ExecReturnWith(handled) ==
    [exec EXCEPT !.pc = "ret", !.result = handled.result, !.escaped = handled.escaped]

\* Lines 248-253: NamedTemporaryFile(delete=False) creates the file.
ExecCreate ==
    /\ exec.pc = "create"
    /\ \/ /\ fs' = fs \cup {FreshName}
          /\ exec' = [exec EXCEPT !.pc = "write", !.f_name = FreshName,
                                  !.created = @ + 1]
       \/ \E e \in CreateErrors :
            /\ exec' = ExecReturnWith(ExceptClauses(exec.code, e))
            /\ fs' = fs
    /\ UNCHANGED <<orch, provVars, viewVars, mgrVars, web>>

\* Lines 254-255: f.write(code), the close of the with block, temp_file = f.name.
\* A failure leaves the with block before the inner try is entered.
ExecWrite ==
    /\ exec.pc = "write"
    /\ \/ exec' = [exec EXCEPT !.pc = "spawn", !.temp_file = exec.f_name]
       \/ \E e \in WriteErrors :
            exec' = ExecReturnWith(ExceptClauses(exec.code, e))
    /\ UNCHANGED <<fs, orch, provVars, viewVars, mgrVars, web>>

\* Lines 259-264 and 283-285: subprocess.run starts the child; when it cannot,
\* the finally clause unlinks temp_file and the exception goes to the handlers.
ExecSpawn ==
    /\ exec.pc = "spawn"
    /\ \/ /\ exec' = [exec EXCEPT !.pc = "wait", !.spawned = @ + 1]
          /\ fs' = fs
       \/ \E e \in SpawnErrors :
            /\ exec' = ExecReturnWith(ExceptClauses(exec.code, e))
            /\ fs' = fs \ {exec.temp_file}
    /\ UNCHANGED <<orch, provVars, viewVars, mgrVars, web>>

\* One second passes while subprocess.run waits for the child.
ExecTick ==
    /\ exec.pc = "wait"
    /\ exec.elapsed < TIMEOUT_SECONDS
    /\ exec' = [exec EXCEPT !.elapsed = @ + 1]
    /\ UNCHANGED <<fs, orch, provVars, viewVars, mgrVars, web>>

\* Lines 266-285: the child exits in time; the record is built, temp_file unlinked.
ExecExit ==
    /\ exec.pc = "wait"
    /\ exec.elapsed < TIMEOUT_SECONDS
    /\ \E child \in ChildExits :
         exec' = [exec EXCEPT !.pc = "ret", !.result = CompletedRecord(exec.code, child)]
    /\ fs' = fs \ {exec.temp_file}
    /\ UNCHANGED <<orch, provVars, viewVars, mgrVars, web>>

\* Lines 263, 283-293: the timeout fires; subprocess.run kills the child and
\* raises TimeoutExpired, the finally clause unlinks temp_file.
ExecTimeout ==
    /\ exec.pc = "wait"
    /\ TimeoutExpired(exec.elapsed)
    /\ exec' = ExecReturnWith(ExceptClauses(exec.code,
                   [type |-> "TimeoutExpired", msg |-> <<"t","i","m","e","d"," ","o","u","t">>]))
    /\ fs' = fs \ {exec.temp_file}
    /\ UNCHANGED <<orch, provVars, viewVars, mgrVars, web>>

ExecStep ==
    \/ ExecScan \/ ExecCreate \/ ExecWrite \/ ExecSpawn
    \/ ExecTick \/ ExecExit \/ ExecTimeout

(***************************************************************************)
(* WebSearchAgent                                                          *)
(***************************************************************************)
\* A page text longer than 100 characters, as search requires of a kept result.
PageText == [i \in 1..101 |-> "x"]

\* str.split(): the words of s, separated by runs of whitespace.
RECURSIVE SplitFrom(_, _, _)
SplitFrom(s, i, word) ==
    IF i > Len(s) THEN (IF word = <<>> THEN <<>> ELSE <<word>>)
    ELSE IF s[i] \in Whitespace
    THEN (IF word = <<>> THEN <<>> ELSE <<word>>) \o SplitFrom(s, i + 1, <<>>)
    ELSE SplitFrom(s, i + 1, Append(word, s[i]))

split(s) == SplitFrom(s, 1, <<>>)

DEFAULT_MAX_RESULTS == 3

\* Lines 98-122
_is_irrelevant_result(url, title, snippet) ==
    \/ \E indicator \in {<<"d","o","w","n","l","o","a","d">>, <<"f","r","e","e"," ","d","o","w","n","l","o","a","d">>, <<"i","n","s","t","a","l","l","e","r">>, <<"s","e","t","u","p",".","e","x","e">>,
                         <<"s","o","f","t","o","n","i","c">>, <<"c","n","e","t">>} : Contains(lower(url), indicator)
    \/ \E site \in {<<"d","o","u","b","l","e","c","l","i","c","k">>, <<"g","o","o","g","l","e","s","y","n","d","i","c","a","t","i","o","n">>, <<"a","m","a","z","o","n","-","a","d","s","y","s","t","e","m">>,
                    <<"f","a","c","e","b","o","o","k",".","c","o","m","/","l",".","p","h","p">>} : Contains(lower(url), site)
    \/ Len(title \o snippet) < 20
    \/ Contains(lower(url), <<"u","t","m","_">>) \/ Contains(lower(url), <<"r","e","d","i","r","e","c","t">>)

common_words ==
    { <<"w","h","a","t">>, <<"i","s">>, <<"t","h","e">>, <<"l","a","t","e","s","t">>, <<"b","e","t","w","e","e","n">>, <<"v","s">>, <<"o","n">>, <<"u","s","e">>,
      <<"w","e","b","s","i","t","e","s">>, <<"l","i","k","e">>, <<"o","r">>, <<"a","n","d">>, <<"f","o","r">>, <<"a","r","e">>, <<"h","o","w">>, <<"w","h","y">>,
      <<"w","h","e","n">>, <<"w","h","e","r","e">> }

\* Line 134: the words of the query longer than 3 characters that are no
\* common words.
key_terms(query) ==
    SelectSeq(split(lower(query)), LAMBDA word : Len(word) > 3 /\ word \notin common_words)

\* Lines 124-140
_is_content_relevant(content, query) ==
    /\ content # <<>>
    /\ \E k \in 1..Len(key_terms(query)) : Contains(lower(content), key_terms(query)[k])

\* What requests.get(url) and the extraction of the text give for a page: the
\* text, or the exception raised on the way.
Fetched(text) == [ok |-> TRUE, text |-> text, error |-> <<>>]
FetchFailed(error) == [ok |-> FALSE, text |-> <<>>, error |-> error]

\* str(e) of the HTTPError that response.raise_for_status() raises.
HttpError(url) == <<"4","0","4"," ","C","l","i","e","n","t"," ","E","r","r","o","r",":"," ","N","o","t"," ","F","o","u","n","d"," ","f","o","r"," ","u","r","l",":"," ">> \o url

\* Lines 142-195: the text, cut after max_length = 2000 characters; the except
\* clause returns the message of the exception as the content.
_fetch_page_content(page) ==
    IF page.ok
    THEN (IF Len(page.text) > 2000 THEN SubSeq(page.text, 1, 2000) \o <<".",".",".">>
          ELSE page.text)
    ELSE <<"C","o","u","l","d"," ","n","o","t"," ","f","e","t","c","h"," ","c","o","n","t","e","n","t",":"," ">> \o page.error

\* One result of the engine. malformed: its title is None, so that the
\* processing of the result raises TypeError at title[:50].
EngineResult(href, title, body, page) ==
    [malformed |-> FALSE, href |-> href, title |-> title, body |-> body, page |-> page]

Malformed(result) == [result EXCEPT !.malformed = TRUE]

\* Lines 78-80: `except Exception` around the processing of one result.
InnerExcept(exc_type) == "Exception" \in ExceptionBases[exc_type]

\* Lines 45-80: the loop over the results from position i on. A result is
\* appended when it passes both tests and its content is longer than 100
\* characters; the length of the list is tested against max_results at the
\* end of the iteration.
RECURSIVE SearchLoop(_, _, _, _, _)
SearchLoop(basic_results, i, formatted_results, query, max_results) ==
    IF i > Len(basic_results)
    THEN [raised |-> FALSE, results |-> formatted_results]
    ELSE LET result == basic_results[i]
             full_content == _fetch_page_content(result.page)
             appended == IF full_content # <<>> /\ Len(full_content) > 100
                         THEN Append(formatted_results,
                                     [title |-> result.title, url |-> result.href,
                                      snippet |-> result.body,
                                      full_content |-> full_content])
                         ELSE formatted_results
             continue == SearchLoop(basic_results, i + 1, formatted_results, query,
                                    max_results)
         IN  IF result.malformed
             THEN (IF InnerExcept("TypeError") THEN continue
                   ELSE [raised |-> TRUE, results |-> formatted_results])
             ELSE IF _is_irrelevant_result(result.href, result.title, result.body)
             THEN continue
             ELSE IF ~_is_content_relevant(full_content, query) THEN continue
             ELSE IF Len(appended) >= max_results
             THEN [raised |-> FALSE, results |-> appended]
             ELSE SearchLoop(basic_results, i + 1, appended, query, max_results)

\* self.ddgs.text(query, max_results=n) gives at most n results; a limit of 0
\* is no limit to the engine.
EngineTake(results, n) ==
    IF n > 0 /\ Len(results) > n THEN SubSeq(results, 1, n) ELSE results

SearchFailedRecord(query, msg) ==
    [success |-> FALSE, query |-> query, error |-> msg, results |-> <<>>]

\* An outer clause that takes nothing.
OuterLetsThrough(query, exc) ==
    [escaped |-> TRUE, result |-> SearchFailedRecord(query, exc.msg)]

\* Lines 89-96: `except Exception` around the whole of search. escaped: the
\* clause did not take the exception.
SearchExcept(query, exc) ==
    [escaped |-> "Exception" \notin ExceptionBases[exc.type],
     result |-> SearchFailedRecord(query, exc.msg)]

\* WebSearchAgent.search(query, max_results), lines 27-96; reply is what the
\* engine and the pages of its results answer.
search(query, max_results, reply) ==
    IF reply.raises THEN SearchExcept(query, reply.exc)
    ELSE LET basic_results == EngineTake(reply.results, max_results * 2)
             looped == SearchLoop(basic_results, 1, <<>>, query, max_results)
         IN  IF looped.raised
             THEN SearchExcept(query, [type |-> "TypeError",
                                       msg |-> <<"'","N","o","n","e","T","y","p","e","'"," ","o","b","j","e","c","t"," ","i","s"," ","n","o","t"," ","s","u","b","s","c","r","i","p","t","a","b","l","e">>])
             ELSE [escaped |-> FALSE,
                   result |-> [success |-> TRUE, query |-> query,
                               results |-> looped.results,
                               count |-> Len(looped.results)]]

EngineRaises(exc) == [raises |-> TRUE, exc |-> exc, results |-> <<>>]
EngineReturns(results) ==
    [raises |-> FALSE, exc |-> [type |-> "none", msg |-> <<>>], results |-> results]

MarsPage == <<"M","a","r","s"," ","r","o","v","e","r"," ","P","e","r","s","e","v","e","r","a","n","c","e"," ","l","a","n","d","e","d"," ">> \o PageText
RoverPage == <<"T","h","e"," ","r","o","v","e","r"," ","d","r","i","v","e","s"," ","o","n"," ">> \o PageText

\* What the engine and the web may answer to a search.
EngineReplies ==
    { EngineRaises([type |-> "TimeoutException", msg |-> <<"t","i","m","e","d"," ","o","u","t">>]),
      EngineRaises([type |-> "RatelimitException", msg |-> <<"2","0","2"," ","R","a","t","e","l","i","m","i","t">>]),
      EngineReturns(<<>>),
      EngineReturns(<<
          EngineResult(<<"h","t","t","p",":","/","/","n","a","s","a",".","g","o","v","/","m","a","r","s">>, <<"M","a","r","s"," ","2","0","2","0"," ","m","i","s","s","i","o","n">>,
                       <<"N","A","S","A"," ","r","o","v","e","r">>, Fetched(MarsPage)),
          EngineResult(<<"h","t","t","p",":","/","/","e","s","a",".","i","n","t","/","r","o","v","e","r">>, <<"E","x","o","M","a","r","s"," ","p","r","o","g","r","a","m","m","e">>,
                       <<"E","S","A"," ","r","o","v","e","r">>, Fetched(RoverPage)) >>),
      EngineReturns(<<
          EngineResult(<<"h","t","t","p",":","/","/","a","d","s",".","c","o","m","/","?","u","t","m","_","s","o","u","r","c","e","=","x">>, <<"M","a","r","s"," ","r","o","v","e","r"," ","t","o","y","s">>,
                       <<"b","u","y"," ","n","o","w">>, Fetched(MarsPage)),
          Malformed(EngineResult(<<"h","t","t","p",":","/","/","n","o","n","e",".","o","r","g","/","m","a","r","s">>, <<>>, <<"r","o","v","e","r">>,
                                 Fetched(MarsPage))),
          EngineResult(<<"h","t","t","p",":","/","/","s","h","o","r","t",".","o","r","g","/","m","a","r","s">>, <<"M","a","r","s"," ","i","n"," ","a"," ","f","e","w"," ","w","o","r","d","s">>,
                       <<"s","h","o","r","t"," ","p","a","g","e">>, Fetched(<<"M","a","r","s"," ","r","o","v","e","r">>)),
          EngineResult(<<"h","t","t","p",":","/","/","v","e","n","u","s",".","o","r","g","/","v","e","n","u","s">>, <<"V","e","n","u","s",","," ","t","h","e"," ","e","v","e","n","i","n","g"," ","s","t","a","r">>,
                       <<"a","n","o","t","h","e","r"," ","p","l","a","n","e","t">>, Fetched(PageText)),
          EngineResult(<<"h","t","t","p",":","/","/","e","s","a",".","i","n","t","/","r","o","v","e","r">>, <<"E","x","o","M","a","r","s"," ","p","r","o","g","r","a","m","m","e">>,
                       <<"E","S","A"," ","r","o","v","e","r">>, Fetched(RoverPage)) >>),
      EngineReturns(<<
          EngineResult(<<"h","t","t","p","s",":","/","/","e","n",".","w","i","k","i","p","e","d","i","a",".","o","r","g","/","w","i","k","i","/","M","a","r","s","_","r","o","v","e","r","_","(","g","o","n","e",")">>,
                       <<"M","a","r","s"," ","r","o","v","e","r"," ","-"," ","W","i","k","i","p","e","d","i","a">>, <<"A"," ","M","a","r","s"," ","r","o","v","e","r"," ","i","s">>,
                       FetchFailed(HttpError(
                           <<"h","t","t","p","s",":","/","/","e","n",".","w","i","k","i","p","e","d","i","a",".","o","r","g","/","w","i","k","i","/","M","a","r","s","_","r","o","v","e","r","_","(","g","o","n","e",")">>))),
          EngineResult(<<"h","t","t","p",":","/","/","n","a","s","a",".","g","o","v","/","m","a","r","s">>, <<"M","a","r","s"," ","2","0","2","0"," ","m","i","s","s","i","o","n">>,
                       <<"N","A","S","A"," ","r","o","v","e","r">>, Fetched(MarsPage)) >>) }

RECURSIVE FormatResults(_, _)
FormatResults(results, i) ==
    IF i > Len(results) THEN <<>>
    ELSE ToStr(i) \o <<"."," ","*","*">> \o results[i].title \o <<"*","*","\n">>
         \o <<" "," "," ","U","R","L",":"," ">> \o results[i].url \o <<"\n">>
         \o <<" "," "," ","S","n","i","p","p","e","t",":"," ">> \o results[i].snippet \o <<"\n">>
         \o (IF results[i].full_content # <<>>
             THEN <<" "," "," ","F","u","l","l"," ","C","o","n","t","e","n","t",":"," ">> \o results[i].full_content \o <<"\n">>
             ELSE <<>>)
         \o <<"\n">>
         \o FormatResults(results, i + 1)

\* WebSearchAgent.format_for_context
format_search_for_context(search_results) ==
    IF ~search_results.success
    THEN <<"W","e","b"," ","s","e","a","r","c","h"," ","f","a","i","l","e","d",":"," ">> \o search_results.error
    ELSE <<"W","e","b"," ","s","e","a","r","c","h"," ","r","e","s","u","l","t","s"," ","f","o","r"," ","'">> \o search_results.query \o <<"'",":","\n","\n">>
         \o FormatResults(search_results.results, 1)

\* CodeExecutionAgent.format_for_context
format_execution_for_context(execution_result) ==
    <<"C","o","d","e"," ","E","x","e","c","u","t","i","o","n"," ","R","e","s","u","l","t",":","\n">> \o <<BT,BT,BT,"p","y","t","h","o","n","\n">> \o execution_result.code \o <<"\n",BT,BT,BT,"\n","\n">>
    \o (IF execution_result.success
        THEN <<"*","*","O","u","t","p","u","t",":","*","*","\n">> \o <<BT,BT,BT,"\n">> \o execution_result.output \o <<"\n",BT,BT,BT>>
        ELSE <<"*","*","E","r","r","o","r",":","*","*","\n",BT,BT,BT,"\n">> \o execution_result.error \o <<"\n",BT,BT,BT>>)

(***************************************************************************)
(* AgentOrchestrator                                                       *)
(***************************************************************************)
WebSearchPhrases ==
    << <<"s","e","a","r","c","h"," ","t","h","e"," ","w","e","b">>, <<"l","o","o","k"," ","u","p">>, <<"f","i","n","d"," ","o","n","l","i","n","e">>, <<"s","e","a","r","c","h"," ","f","o","r">>,
       <<"w","h","a","t"," ","i","s"," ","t","h","e"," ","l","a","t","e","s","t">>, <<"r","e","c","e","n","t"," ","n","e","w","s">>, <<"c","u","r","r","e","n","t">>, <<"t","o","d","a","y">> >>

CodeExecutionPhrases ==
    << <<"r","u","n"," ","t","h","i","s"," ","c","o","d","e">>, <<"e","x","e","c","u","t","e">>, <<"t","r","y"," ","t","h","i","s"," ","p","y","t","h","o","n">>, <<"t","e","s","t"," ","t","h","i","s"," ","c","o","d","e">>,
       <<BT,BT,BT,"p","y","t","h","o","n">> >>

\* A test that asks for every phrase.
EveryPhraseIn(phrases, text) == \A k \in 1..Len(phrases) : Contains(text, phrases[k])

\* `any(phrase in message_lower for phrase in [...])`
AnyPhraseIn(phrases, text) == \E k \in 1..Len(phrases) : Contains(text, phrases[k])

detect_intent(message) ==
    [web_search     |-> AnyPhraseIn(WebSearchPhrases, lower(message)),
     code_execution |-> AnyPhraseIn(CodeExecutionPhrases, lower(message))]

\* The first match of the pattern of line 351 in message (re.DOTALL), or None.
\* The leftmost match starts at the first opening fence; the first \s* takes the
\* whitespace after it, and the lazy group ends where only whitespace is left
\* before the next three backticks.
extract_code(message) ==
    IF ~Contains(message, <<BT,BT,BT,"p","y","t","h","o","n">>) THEN [found |-> FALSE, code |-> <<>>]
    ELSE LET a == index(message, <<BT,BT,BT,"p","y","t","h","o","n">>) + Len(<<BT,BT,BT,"p","y","t","h","o","n">>)
             body == {i \in a..Len(message) : message[i] \notin Whitespace}
             p == IF body = {} THEN Len(message) + 1
                  ELSE CHOOSE i \in body : \A j \in body : i <= j
             closes == {t \in p..Len(message) : MatchAt(message, <<BT,BT,BT>>, t)}
         IN  IF closes = {} THEN [found |-> FALSE, code |-> <<>>]
             ELSE [found |-> TRUE,
                   code  |-> rstrip(SubSeq(message, p,
                                 (CHOOSE t \in closes : \A u \in closes : t <= u) - 1))]

QueryPhrases == << <<"s","e","a","r","c","h"," ","t","h","e"," ","w","e","b"," ","f","o","r">>, <<"l","o","o","k"," ","u","p">>, <<"s","e","a","r","c","h"," ","f","o","r">> >>

\* Lines 386-391: the text after the first query phrase found, else the message.
RECURSIVE ExtractQuery(_, _)
ExtractQuery(message, k) ==
    IF k > Len(QueryPhrases) THEN message
    ELSE IF Contains(lower(message), QueryPhrases[k])
    THEN strip(SubSeq(message,
                      index(lower(message), QueryPhrases[k]) + Len(QueryPhrases[k]),
                      Len(message)))
    ELSE ExtractQuery(message, k + 1)

\* Conditions that let the intent alone, or either of the two, start a tool.
IntentOnly(enable, intent) == intent
EnabledOrIntent(enable, intent) == enable \/ intent

\* Line 383 and line 402: the conditions under which each tool runs.
ToolWanted(enable, intent) == enable /\ intent

\* A list that takes the records of the tools that succeeded only.
AppendIfSucceeded(tool_results, record) ==
    IF record.success THEN Append(tool_results, record) ELSE tool_results

\* Lines 398 and 409: results['tool_results'].append(record)
AppendRecord(tool_results, record) == Append(tool_results, record)

\* A branch that runs the search again when it failed.
RetryFailedSearch(search_results) ==
    IF search_results.success THEN "code" ELSE "web"

\* Lines 393-402: whatever the record says, the code execution branch is next.
AfterSearch(search_results) == "code"

OrchIdle ==
    [pc |-> "idle", caller |-> "none", message |-> <<>>,
     enable_web_search |-> FALSE, enable_code_execution |-> FALSE,
     tool_calls |-> <<>>, tool_results |-> <<>>, context |-> <<>>,
     searches |-> 0, executions |-> 0, spawned |-> 0,
     search_failed |-> FALSE, escaped |-> FALSE]

\* process_with_tools(message, enable_web_search, enable_code_execution) is entered.
EnterProcessWithTools(message, ews, ece, caller) ==
    [OrchIdle EXCEPT !.pc = "web", !.caller = caller, !.message = message,
                     !.enable_web_search = ews, !.enable_code_execution = ece]

\* Lines 380-399: the web search branch.
OrchWeb ==
    /\ orch.pc = "web"
    /\ IF ToolWanted(orch.enable_web_search, detect_intent(orch.message).web_search)
       THEN LET query == ExtractQuery(orch.message, 1)
            IN  \E reply \in EngineReplies :
                  LET searched == search(query, DEFAULT_MAX_RESULTS, reply)
                      search_results == searched.result
                  IN  orch' = IF searched.escaped
                              THEN [orch EXCEPT !.pc = "ret", !.escaped = TRUE,
                                                !.searches = @ + 1,
                                                !.search_failed = reply.raises]
                              ELSE [orch EXCEPT
                      !.pc = AfterSearch(search_results),
                      !.searches = @ + 1,
                      !.search_failed = reply.raises,
                      !.tool_calls = Append(@, [tool |-> "web_search", input |-> query]),
                      !.tool_results = AppendRecord(@, search_results),
                      !.context = @ \o format_search_for_context(search_results)
                                    \o <<"\n","\n">>]
       ELSE orch' = [orch EXCEPT !.pc = "code"]
    /\ UNCHANGED <<fs, exec, provVars, viewVars, mgrVars, web>>

\* Lines 402-405: the code execution branch up to the call of execute.
OrchCode ==
    /\ orch.pc = "code"
    /\ LET code == extract_code(orch.message)
       IN  IF /\ ToolWanted(orch.enable_code_execution,
                            detect_intent(orch.message).code_execution)
              /\ code.found /\ code.code # <<>>
           THEN /\ orch' = [orch EXCEPT !.pc = "exec", !.executions = @ + 1]
                /\ exec' = EnterExecute(code.code, "orch")
           ELSE /\ orch' = [orch EXCEPT !.pc = "ret"]
                /\ exec' = exec
    /\ UNCHANGED <<fs, provVars, viewVars, mgrVars, web>>

\* Lines 405-413: execute has returned; its record is appended.
OrchExecuted ==
    /\ orch.pc = "exec"
    /\ exec.pc = "ret" /\ exec.caller = "orch"
    /\ orch' = [orch EXCEPT
           !.pc = "ret",
           !.spawned = @ + exec.spawned,
           !.tool_calls = Append(@, [tool |-> "code_execution", input |-> exec.code]),
           !.tool_results = AppendRecord(@, exec.result),
           !.context = @ \o format_execution_for_context(exec.result) \o <<"\n","\n">>]
    /\ exec' = ExecIdle
    /\ UNCHANGED <<fs, provVars, viewVars, mgrVars, web>>

OrchStep == OrchWeb \/ OrchCode \/ OrchExecuted

(***************************************************************************)
(* Providers: FoundryLocalProvider, FoundryService, AzureOpenAIProvider    *)
(***************************************************************************)
\* Models a listing may hold.
MaxModels == 2

\* The model objects FoundryLocalManager may list; one has no alias attribute.
CachedModels ==
    { [id |-> <<"p","h","i","-","g","p","u">>, alias |-> <<"p","h","i">>],
      [id |-> <<"o","1","-","l","o","c","a","l">>, alias |-> <<"o","1">>],
      [id |-> <<"p","h","i">>, alias |-> <<"p">>],
      [id |-> <<"q","w","e","n">>] }

\* What list_cached_models may answer: an exception, or a list.
Catalogs ==
    { [ok |-> FALSE, models |-> <<>>] }
    \cup { [ok |-> TRUE, models |-> ms] :
             ms \in UNION { [1..n -> CachedModels] : n \in 0..MaxModels } }

\* get_available_models of FoundryLocalProvider and of FoundryService: the
\* listing as dicts, [] when the listing raised.
get_available_models(listing) ==
    IF ~listing.ok THEN <<>>
    ELSE [i \in 1..Len(listing.models) |->
            [id    |-> listing.models[i].id,
             alias |-> IF "alias" \in DOMAIN listing.models[i]
                       THEN listing.models[i].alias
                       ELSE listing.models[i].id,
             name  |-> listing.models[i].id]]

Resolved(id) == [raised |-> FALSE, id |-> id, error |-> <<>>]
NoModels == [raised |-> TRUE, id |-> <<>>, error |-> <<"N","o"," ","m","o","d","e","l","s"," ","a","v","a","i","l","a","b","l","e">>]

\* A loop that compares the alias only.
RECURSIVE AliasLoop(_, _, _)
AliasLoop(models, alias_or_id, i) ==
    IF i > Len(models)
    THEN IF models # <<>> THEN Resolved(models[1].id) ELSE NoModels
    ELSE IF models[i].alias = alias_or_id
    THEN Resolved(models[i].id)
    ELSE AliasLoop(models, alias_or_id, i + 1)

\* The loop of _get_model_id from position i on, then the fallbacks.
RECURSIVE ModelIdLoop(_, _, _)
ModelIdLoop(models, alias_or_id, i) ==
    IF i > Len(models)
    THEN IF models # <<>> THEN Resolved(models[1].id) ELSE NoModels
    ELSE IF models[i].alias = alias_or_id \/ models[i].id = alias_or_id
    THEN Resolved(models[i].id)
    ELSE ModelIdLoop(models, alias_or_id, i + 1)

\* A resolution by alias only.
AliasOnlyModelId(listing, alias_or_id) ==
    AliasLoop(get_available_models(listing), alias_or_id, 1)

\* FoundryLocalProvider._get_model_id
_get_model_id(listing, alias_or_id) ==
    ModelIdLoop(get_available_models(listing), alias_or_id, 1)

\* FoundryService.get_model_id
get_model_id(listing, alias_or_id) ==
    ModelIdLoop(get_available_models(listing), alias_or_id, 1)

\* A prefix test that does not lower the name first.
CaseSensitiveReasoning(model_name) ==
    /\ model_name # <<>>
    /\ \E prefix \in {<<"o","1">>, <<"o","3">>, <<"o","4">>} : startswith(model_name, prefix)

\* AzureOpenAIProvider._is_reasoning_model
_is_reasoning_model(model_name) ==
    /\ model_name # <<>>
    /\ \E prefix \in {<<"o","1">>, <<"o","3">>, <<"o","4">>} : startswith(lower(model_name), prefix)

DefaultTemperature == "0.7"
DefaultMaxTokens == 2048

Request(provider, params) == [provider |-> provider, params |-> params]

\* The params dict AzureOpenAIProvider.chat_completion and _stream_completion
\* build (lines 255-266 and 283-294).
AzureParams(dep, messages, temperature, max_tokens, stream) ==
    LET base == IF stream
                THEN [model |-> dep, messages |-> messages, stream |-> TRUE]
                ELSE [model |-> dep, messages |-> messages]
    IN  IF _is_reasoning_model(dep)
        THEN ("max_completion_tokens" :> max_tokens) @@ base
        ELSE ("max_tokens" :> max_tokens) @@ ("temperature" :> temperature) @@ base

\* The keyword arguments of the create call of FoundryLocalProvider and of
\* FoundryService (lines 118-123 and 137-143).
FoundryParams(model_id, messages, temperature, max_tokens, stream) ==
    LET base == [model |-> model_id, messages |-> messages,
                 temperature |-> temperature, max_tokens |-> max_tokens]
    IN  IF stream THEN ("stream" :> TRUE) @@ base ELSE base

\* The probe of AzureOpenAIProvider.is_service_running (lines 325-329).
ProbeParams(dep) ==
    [model |-> dep, messages |-> <<[role |-> "user", content |-> <<"t","e","s","t">>]>>,
     max_tokens |-> 1]

\* The messages of summarize_text.
SummaryMessages(text) ==
    << [role |-> "system", content |-> <<"Y","o","u"," ","a","r","e"," ","a"," ","h","e","l","p","f","u","l"," ","a","s","s","i","s","t","a","n","t"," ","t","h","a","t"," ","s","u","m","m","a","r","i","z","e","s"," ","t","e","x","t",".">>],
       [role |-> "user",
        content |-> <<"P","l","e","a","s","e"," ","s","u","m","m","a","r","i","z","e"," ","t","h","e"," ","f","o","l","l","o","w","i","n","g"," ","t","e","x","t",":","\n","\n">> \o text] >>

ChatMessages == << [role |-> "user", content |-> <<"h","i">>] >>

NoCall == [op |-> "none", provider |-> "none", stream |-> FALSE, asked |-> <<>>,
           sent |-> <<>>,
           raised |-> FALSE, running |-> FALSE, resolved |-> NoModels]

\* AzureOpenAIProvider.__init__, line 187: the deployment the instance serves.
AzureInit(deployment_name) ==
    /\ call.op = "none"
    /\ deployment' = deployment_name
    /\ call' = NoCall
    /\ UNCHANGED <<catalog, toolVars, viewVars, mgrVars>>

\* Foundry Local caches or drops models, or stops answering.
CatalogChanges(listing) ==
    /\ call.op = "none"
    /\ catalog' = listing
    /\ call' = NoCall
    /\ UNCHANGED <<deployment, toolVars, viewVars, mgrVars>>

\* AzureOpenAIProvider.chat_completion(messages, model, stream=stream). With
\* stream the generator of _stream_completion is returned, and its request goes
\* out when the caller starts to iterate it. backend_ok: the endpoint answers.
AzureCompletion(op, messages, model, stream, iterated, backend_ok) ==
    LET dep == IF model # <<>> THEN model ELSE deployment
        request == Request("azure_openai",
                       AzureParams(dep, messages, DefaultTemperature,
                                   DefaultMaxTokens, stream))
    IN  /\ call.op = "none"
        /\ call' = [NoCall EXCEPT
               !.op = op, !.provider = "azure_openai", !.stream = stream,
               !.sent = IF stream /\ ~iterated THEN <<>> ELSE <<request>>,
               !.raised = (~stream \/ iterated) /\ ~backend_ok]
        /\ UNCHANGED <<catalog, deployment, toolVars, viewVars, mgrVars>>

AzureChatCompletion(model, stream, iterated, backend_ok) ==
    AzureCompletion("chat_completion", ChatMessages, model, stream, iterated, backend_ok)

\* AzureOpenAIProvider.summarize_text(text, model)
AzureSummarize(text, model, backend_ok) ==
    AzureCompletion("summarize_text", SummaryMessages(text), model, FALSE, FALSE,
                    backend_ok)

\* AzureOpenAIProvider.is_service_running: models.list(), and the probe
\* completion when that raises.
AzureIsServiceRunning(list_ok, backend_ok) ==
    /\ call.op = "none"
    /\ call' = [NoCall EXCEPT
           !.op = "is_service_running", !.provider = "azure_openai",
           !.sent = IF list_ok THEN <<>>
                    ELSE <<Request("azure_openai", ProbeParams(deployment))>>,
           !.running = list_ok \/ backend_ok]
    /\ UNCHANGED <<catalog, deployment, toolVars, viewVars, mgrVars>>

\* chat_completion of FoundryLocalProvider ("foundry_local") and of
\* FoundryService ("foundry_service"): the model id is resolved, then the
\* request is sent at once, or by the generator when it is iterated.
FoundryCompletion(provider, op, messages, model, stream, iterated, backend_ok) ==
    LET resolved == IF provider = "foundry_local"
                    THEN _get_model_id(catalog, model)
                    ELSE get_model_id(catalog, model)
        request == Request(provider,
                       FoundryParams(resolved.id, messages, DefaultTemperature,
                                     DefaultMaxTokens, stream))
    IN  /\ call.op = "none"
        /\ call' = [NoCall EXCEPT
               !.op = op, !.provider = provider, !.stream = stream,
               !.resolved = resolved,
               !.sent = IF resolved.raised \/ (stream /\ ~iterated)
                        THEN <<>> ELSE <<request>>,
               !.raised = \/ resolved.raised
                          \/ (~stream \/ iterated) /\ ~backend_ok]
        /\ UNCHANGED <<catalog, deployment, toolVars, viewVars, mgrVars>>

FoundryChatCompletion(provider, model, stream, iterated, backend_ok) ==
    FoundryCompletion(provider, "chat_completion", ChatMessages, model, stream,
                      iterated, backend_ok)

FoundrySummarize(provider, text, model, backend_ok) ==
    FoundryCompletion(provider, "summarize_text", SummaryMessages(text), model,
                      FALSE, FALSE, backend_ok)

\* A direct call of _get_model_id or get_model_id.
ResolveModelId(provider, alias_or_id) ==
    /\ call.op = "none"
    /\ call' = [NoCall EXCEPT
           !.op = "get_model_id", !.provider = provider, !.asked = alias_or_id,
           !.resolved = IF provider = "foundry_local"
                        THEN _get_model_id(catalog, alias_or_id)
                        ELSE get_model_id(catalog, alias_or_id),
           !.raised = IF provider = "foundry_local"
                      THEN _get_model_id(catalog, alias_or_id).raised
                      ELSE get_model_id(catalog, alias_or_id).raised]
    /\ UNCHANGED <<catalog, deployment, toolVars, viewVars, mgrVars>>

\* The caller takes what the call returned or raised.
CallReturns ==
    /\ call.op # "none"
    /\ call' = NoCall
    /\ UNCHANGED <<catalog, deployment, toolVars, viewVars, mgrVars>>

\* The names a completion is asked for; the empty one stands for None.
ModelNames == { <<>>, <<"g","p","t","-","4","o">>, <<"o","1","-","m","i","n","i">>, <<"O","3">>, <<"o","4">>, <<"p","h","i">>, <<"p","h","i","-","g","p","u">>, <<"g","o","1">> }
Deployments == { <<"g","p","t","-","4","o">>, <<"o","1","-","m","i","n","i">>, <<"O","3","-","x">>, <<"o">> }
FoundryClasses == {"foundry_local", "foundry_service"}
Texts == { <<"a","b","c">> }

(***************************************************************************)
(* The store (chat/models.py) and the request handlers (chat/views.py)     *)
(***************************************************************************)
\* Rows (conversations, messages, uploads) the store may come to create.
MaxRows == 4

\* The rows that the chat requests on their own may create.
MaxChatRows == 6

Users == {"alice", "bob"}

\* The users whose requests add rows to the store; the requests of the others
\* name what is there, or nothing.
Creators == {"alice"}

\* An optional value: <<>> is None, <<x>> is x.
None == <<>>
Some(x) == <<x>>

EmptyDb ==
    [conversations |-> {}, messages |-> <<>>, files |-> {}, settings |-> {},
     next_conv |-> 1, next_msg |-> 1, next_file |-> 1]

\* The rows created so far.
Created(store) ==
    (store.next_conv - 1) + (store.next_msg - 1) + (store.next_file - 1)
    + Cardinality(store.settings)

\* UserSettings.objects.filter(user=user)
SettingsOf(store, user) == {s \in store.settings : s.user = user}

\* The defaults of a new UserSettings row (models.py 88-105): the provider
\* and whether the user's own Azure endpoint and key are both set.
DefaultSettings(user) ==
    [user |-> user, ai_provider |-> <<"f","o","u","n","d","r","y","_","l","o","c","a","l">>, custom |-> FALSE]

\* UserSettings.objects.get_or_create(user=user)
GetOrCreateSettings(store, user) ==
    IF SettingsOf(store, user) # {} THEN store
    ELSE [store EXCEPT !.settings = @ \cup {DefaultSettings(user)}]

\* settings.<fields> = values; settings.save()
SaveSettings(store, user, ai_provider, custom) ==
    [store EXCEPT !.settings =
        {s \in @ : s.user # user}
        \cup {[user |-> user, ai_provider |-> ai_provider, custom |-> custom]}]

\* The rows a get_or_create of the user's settings adds.
SettingsRows(store, user) == IF SettingsOf(store, user) = {} THEN 1 ELSE 0

\* Conversation.objects.filter(id=conversation_id, user=user)
ConversationsOf(store, conversation_id, user) ==
    {c \in store.conversations : c.id = conversation_id /\ c.user = user}

\* FileUpload.objects.filter(id=file_id, user=user)
FilesOf(store, file_id, user) ==
    {f \in store.files : f.id = file_id /\ f.user = user}

\* Conversation.objects.create(user=, title=, model_used=)
CreateConversation(store, user, title, model) ==
    [store EXCEPT
        !.conversations = @ \cup {[id |-> store.next_conv, user |-> user,
                                   title |-> title, model_used |-> model]},
        !.next_conv = @ + 1]

\* Message.objects.create(conversation=, role=, content=, tool_calls=, tool_results=)
CreateMessage(store, conversation_id, role, content, tool_calls, tool_results) ==
    [store EXCEPT
        !.messages = Append(@, [id |-> store.next_msg, conversation |-> conversation_id,
                                role |-> role, content |-> content,
                                tool_calls |-> tool_calls,
                                tool_results |-> tool_results]),
        !.next_msg = @ + 1]

\* FileUpload.objects.create(user=, conversation=, extracted_text=, ...)
CreateFile(store, user, conversation, content) ==
    [store EXCEPT
        !.files = @ \cup {[id |-> store.next_file, user |-> user,
                           conversation |-> conversation, extracted_text |-> content]},
        !.next_file = @ + 1]

RECURSIVE SelectMessages(_, _)
SelectMessages(messages, keep) ==
    IF messages = <<>> THEN <<>>
    ELSE IF Head(messages).conversation \in keep
    THEN <<Head(messages)>> \o SelectMessages(Tail(messages), keep)
    ELSE SelectMessages(Tail(messages), keep)

\* conversation.delete(): on_delete=CASCADE removes its messages and files.
DeleteConversation(store, conversation_id) ==
    [store EXCEPT
        !.conversations = {c \in @ : c.id # conversation_id},
        !.messages = SelectMessages(@, {c.id : c \in store.conversations}
                                           \ {conversation_id}),
        !.files = {f \in @ : f.conversation # Some(conversation_id)}]

\* conversation.<field> = value; conversation.save()
UpdateConversation(store, conversation_id, title, model) ==
    [store EXCEPT
        !.conversations = {IF c.id = conversation_id
                           THEN [c EXCEPT !.title = title, !.model_used = model]
                           ELSE c : c \in @}]

\* conversation.messages.all(), in creation order
MessagesOf(store, conversation_id) == SelectMessages(store.messages, {conversation_id})

\* Lines 360 and 586: the title of a new conversation.
TitleOf(message_content) ==
    IF Len(message_content) > 50 THEN SubSeq(message_content, 1, 50) \o <<".",".",".">>
    ELSE message_content

SystemPrompt == <<"Y","o","u"," ","a","r","e"," ","a"," ","h","e","l","p","f","u","l"," ","A","I"," ","a","s","s","i","s","t","a","n","t"," ","p","o","w","e","r","e","d"," ","b","y"," ","M","i","c","r","o","s","o","f","t"," ","F","o","u","n","d","r","y"," ","L","o","c","a","l",".">>

Response(status, error) == [status |-> status, error |-> error]

\* The handlers whose get_object_or_404 is inside their try block.
LookupInTry ==
    {"chat", "ajax_send_message", "summarize", "upload_file", "ajax_upload_file"}

\* What the client gets when get_object_or_404 raises Http404 in a handler: the
\* except Exception clause of the handler takes it when the lookup is inside the
\* try block, the framework answers 404 otherwise.
NotFoundResponse(view, what) ==
    IF view \in LookupInTry
    THEN Response(500, <<"N","o"," ">> \o what \o <<" ","m","a","t","c","h","e","s"," ","t","h","e"," ","g","i","v","e","n"," ","q","u","e","r","y",".">>)
    ELSE Response(404, <<"N","o","t"," ","f","o","u","n","d">>)

ReqIdle ==
    [pc |-> "idle", view |-> "none", user |-> "none", message |-> <<>>,
     model |-> <<>>, use_web_search |-> FALSE, use_code_execution |-> FALSE,
     conversation |-> 0, user_message |-> 0, assistant_message |-> 0,
     tool_context |-> <<>>, tool_calls |-> None, tool_results |-> None,
     lookup_failed |-> FALSE, model_called |-> 0, model_failed |-> FALSE,
     input_missing |-> FALSE, search_failed |-> FALSE,
     searches |-> 0, spawned |-> 0,
     sent |-> <<>>, response |-> Response(0, <<>>)]

\* A test that takes every value as given.
NeverFalsy(value) == FALSE

\* `not value` for a string: the empty string is false.
Falsy(value) == value = <<>>

Finished(view, user, response) ==
    [ReqIdle EXCEPT !.pc = "done", !.view = view, !.user = user,
                    !.response = response]

AllIdle ==
    req.pc = "idle" /\ orch.pc = "idle" /\ exec.pc = "idle" /\ web.pc = "idle"

\* chat (lines 341-372) and ajax_send_message (lines 565-598) up to the saved
\* user message. conversation_id 0 stands for an absent one. The serializer of
\* chat strips the message and rejects a blank one; ajax_send_message rejects
\* an empty one.
PostMessageWithin(rows, view, user, message, conversation_id, model, ews, ece) ==
    LET message_content == IF view = "chat" THEN strip(message) ELSE message
        title == TitleOf(message_content)
        created == CreateConversation(db, user, title, model)
        conversation == IF conversation_id # 0 THEN conversation_id ELSE db.next_conv
        store == IF conversation_id # 0 THEN db ELSE created
    IN  /\ AllIdle
        /\ Created(db) + (IF conversation_id = 0 THEN 3 ELSE 2)
               + SettingsRows(db, user) <= rows
        /\ IF Falsy(message_content)
           THEN /\ req' = [Finished(view, user, Response(400, <<"M","e","s","s","a","g","e"," ","i","s"," ","r","e","q","u","i","r","e","d">>))
                              EXCEPT !.input_missing = (message = <<>>)]
                /\ db' = db
           ELSE IF conversation_id # 0 /\ ConversationsOf(db, conversation_id, user) = {}
           THEN /\ req' = [Finished(view, user, NotFoundResponse(view, <<"C","o","n","v","e","r","s","a","t","i","o","n">>))
                              EXCEPT !.lookup_failed = TRUE,
                                     !.input_missing = (message = <<>>)]
                /\ db' = db
           ELSE /\ db' = CreateMessage(store, conversation, "user", message_content,
                                       None, None)
                /\ req' = [ReqIdle EXCEPT
                      !.pc = "tools", !.view = view, !.user = user,
                      !.message = message_content, !.model = model,
                      !.use_web_search = ews, !.use_code_execution = ece,
                      !.conversation = conversation,
                      !.user_message = store.next_msg,
                      !.input_missing = (message = <<>>)]
        /\ UNCHANGED <<toolVars, provVars, mgrVars>>

\* An except clause that takes the user message back.
RolledBack(store, user_message) ==
    [store EXCEPT !.messages = SelectSeq(@, LAMBDA m : m.id # user_message)]

\* Lines 439-444 and 664-666: the except clause logs and answers; what the
\* request has stored so far stays.
ExceptClause(store, user_message) == store

PostMessage(view, user, message, conversation_id, model, ews, ece) ==
    PostMessageWithin(MaxRows, view, user, message, conversation_id, model, ews, ece)

\* Lines 374-384 and 600-611: the tools are called when a flag is set.
PostMessageTools ==
    /\ req.pc = "tools"
    /\ IF req.use_web_search \/ req.use_code_execution
       THEN /\ orch' = EnterProcessWithTools(req.message, req.use_web_search,
                                             req.use_code_execution, "view")
            /\ req' = [req EXCEPT !.pc = "tools_wait"]
       ELSE /\ req' = [req EXCEPT !.pc = "model"]
            /\ orch' = orch
    /\ UNCHANGED <<fs, exec, db, provVars, mgrVars, web>>

\* A handler that keeps the lists as they come.
KeepAlways(tool_calls, value) == Some(value)

\* Lines 386-388 and 613-615: `if agent_result['tool_calls']:` keeps the two
\* lists; otherwise both stay None.
KeepIfCalled(tool_calls, value) == IF tool_calls # <<>> THEN Some(value) ELSE None

\* Lines 385-388 and 612-615: process_with_tools has returned; an exception
\* that left it goes to the except clause of the handler.
PostMessageToolsDone ==
    /\ req.pc = "tools_wait"
    /\ orch.pc = "ret" /\ orch.caller = "view"
    /\ IF orch.escaped
       THEN /\ req' = [req EXCEPT !.pc = "done", !.search_failed = orch.search_failed,
                                  !.searches = @ + orch.searches,
                                  !.spawned = @ + orch.spawned,
                                  !.response = Response(500, <<"s","e","a","r","c","h">>)]
            /\ db' = ExceptClause(db, req.user_message)
       ELSE /\ req' = [req EXCEPT
                  !.pc = "model",
                  !.search_failed = orch.search_failed,
                  !.searches = @ + orch.searches,
                  !.spawned = @ + orch.spawned,
                  !.tool_context = orch.context,
                  !.tool_calls = KeepIfCalled(orch.tool_calls, orch.tool_calls),
                  !.tool_results = KeepIfCalled(orch.tool_calls, orch.tool_results)]
            /\ db' = db
    /\ orch' = OrchIdle
    /\ UNCHANGED <<fs, exec, provVars, mgrVars, web>>

\* A message list with the tool context ahead of the conversation.
ToolContextFirst(view, store, conversation_id, tool_context) ==
    <<[role |-> "system", content |-> SystemPrompt]>>
    \o (IF tool_context # <<>>
        THEN <<[role |-> "system", content |-> <<"T","o","o","l"," ","r","e","s","u","l","t","s",":","\n","\n">> \o tool_context]>>
        ELSE <<>>)
    \o [i \in 1..Len(MessagesOf(store, conversation_id)) |->
            [role    |-> MessagesOf(store, conversation_id)[i].role,
             content |-> MessagesOf(store, conversation_id)[i].content]]

\* Lines 390-412 and 617-629: the message list for the model.
BuildMessages(view, store, conversation_id, tool_context) ==
    <<[role |-> "system", content |-> SystemPrompt]>>
    \o [i \in 1..Len(MessagesOf(store, conversation_id)) |->
            [role    |-> MessagesOf(store, conversation_id)[i].role,
             content |-> MessagesOf(store, conversation_id)[i].content]]
    \o (IF tool_context # <<>>
        THEN <<[role |-> "system",
                content |-> (IF view = "chat"
                             THEN <<"T","h","e"," ","f","o","l","l","o","w","i","n","g"," ","i","n","f","o","r","m","a","t","i","o","n"," ","w","a","s"," ","g","a","t","h","e","r","e","d"," ","u","s","i","n","g"," ","t","o","o","l","s",":","\n","\n">>
                             ELSE <<"T","o","o","l"," ","r","e","s","u","l","t","s",":","\n","\n">>) \o tool_context]>>
        ELSE <<>>)

\* What get_user_ai_provider(user).chat_completion(messages, model) may do:
\* return the reply, or raise.
ModelReplies ==
    { [ok |-> TRUE, text |-> <<"H","i","!">>, error |-> <<>>],
      [ok |-> FALSE, text |-> <<>>, error |-> <<"C","o","n","n","e","c","t","i","o","n"," ","e","r","r","o","r",".">>] }

\* Lines 394 and 619: the settings row of the user is read, and created when
\* there is none. Lines 414-444 and 631-666: the model call, then the
\* assistant message and the conversation update, or the except clause.
PostMessageModel ==
    /\ req.pc = "model"
    /\ \E reply \in ModelReplies :
         LET store == GetOrCreateSettings(db, req.user)
             messages == BuildMessages(req.view, store, req.conversation,
                                       req.tool_context)
             called == [req EXCEPT !.pc = "done", !.model_called = @ + 1,
                                   !.sent = Append(@, messages)]
             saved == CreateMessage(store, req.conversation, "assistant", reply.text,
                                    req.tool_calls, req.tool_results)
             title == (CHOOSE c \in db.conversations : c.id = req.conversation).title
         IN  IF reply.ok
             THEN /\ db' = UpdateConversation(saved, req.conversation, title, req.model)
                  /\ req' = [called EXCEPT !.assistant_message = db.next_msg,
                                           !.response = Response(200, <<>>)]
             ELSE /\ db' = ExceptClause(store, req.user_message)
                  /\ req' = [called EXCEPT !.model_failed = TRUE,
                                           !.response = Response(500, reply.error)]
    /\ UNCHANGED <<toolVars, provVars, mgrVars>>

\* summarize (lines 455-492). file_id 0 stands for an absent one.
Summarize(user, text, file_id, reply) ==
    LET files == FilesOf(db, file_id, user)
        file_text == (CHOOSE f \in files : TRUE).extracted_text
        answered ==
             IF Falsy(text) /\ file_id = 0
             THEN Finished("summarize", user,
                      Response(400, <<"E","i","t","h","e","r"," ","'","t","e","x","t","'"," ","o","r"," ","'","f","i","l","e","_","i","d","'"," ","m","u","s","t"," ","b","e"," ","p","r","o","v","i","d","e","d">>))
             ELSE IF file_id # 0 /\ files = {}
             THEN [Finished("summarize", user, NotFoundResponse("summarize", <<"F","i","l","e","U","p","l","o","a","d">>))
                      EXCEPT !.lookup_failed = TRUE]
             ELSE IF file_id # 0 /\ Falsy(file_text)
             THEN Finished("summarize", user,
                      Response(400, <<"N","o"," ","t","e","x","t"," ","c","o","n","t","e","n","t"," ","f","o","u","n","d"," ","i","n"," ","f","i","l","e">>))
             ELSE IF reply.ok
             THEN [Finished("summarize", user, Response(200, <<>>))
                      EXCEPT !.model_called = 1]
             ELSE [Finished("summarize", user, Response(500, reply.error))
                      EXCEPT !.model_called = 1, !.model_failed = TRUE]
    IN  /\ AllIdle
        /\ req' = [answered EXCEPT !.input_missing = (text = <<>> /\ file_id = 0)]
        /\ UNCHANGED <<db, toolVars, provVars, mgrVars>>

\* upload_file (lines 503-552) and ajax_upload_file (lines 723-769). A text
\* content type is decoded outside the inner try of upload_file, so that its
\* UnicodeDecodeError reaches the except Exception clause.
Upload(view, user, has_file, text_type, decodable, content, conversation_id) ==
    /\ AllIdle
    /\ Created(db) < MaxRows
    /\ IF ~has_file
       THEN /\ req' = [Finished(view, user, Response(400, <<"N","o"," ","f","i","l","e"," ","p","r","o","v","i","d","e","d">>))
                          EXCEPT !.input_missing = TRUE]
            /\ db' = db
       ELSE IF ~decodable
       THEN /\ req' = Finished(view, user,
                          IF view = "upload_file" /\ text_type
                          THEN Response(500, <<"'","u","t","f","-","8","'"," ","c","o","d","e","c"," ","c","a","n","'","t"," ","d","e","c","o","d","e">>)
                          ELSE Response(400, <<"U","n","a","b","l","e"," ","t","o"," ","e","x","t","r","a","c","t"," ","t","e","x","t"," ","f","r","o","m"," ","f","i","l","e">>))
            /\ db' = db
       ELSE IF conversation_id # 0 /\ ConversationsOf(db, conversation_id, user) = {}
       THEN /\ req' = [Finished(view, user, NotFoundResponse(view, <<"C","o","n","v","e","r","s","a","t","i","o","n">>))
                          EXCEPT !.lookup_failed = TRUE]
            /\ db' = db
       ELSE /\ db' = CreateFile(db, user,
                         IF conversation_id # 0 THEN Some(conversation_id) ELSE None,
                         content)
            /\ req' = Finished(view, user,
                          Response(IF view = "upload_file" THEN 201 ELSE 200, <<>>))
    /\ UNCHANGED <<toolVars, provVars, mgrVars>>

\* ajax_new_conversation (lines 671-681)
AjaxNewConversation(user) ==
    /\ AllIdle
    /\ Created(db) < MaxRows
    /\ db' = CreateConversation(db, user, <<"N","e","w"," ","C","h","a","t">>, <<"p","h","i","-","4","-","m","i","n","i">>)
    /\ req' = Finished("ajax_new_conversation", user, Response(200, <<>>))
    /\ UNCHANGED <<toolVars, provVars, mgrVars>>

\* ajax_delete_conversation (lines 686-692)
AjaxDeleteConversation(user, conversation_id) ==
    /\ AllIdle
    /\ IF ConversationsOf(db, conversation_id, user) = {}
       THEN /\ req' = [Finished("ajax_delete_conversation", user,
                           NotFoundResponse("ajax_delete_conversation", <<"C","o","n","v","e","r","s","a","t","i","o","n">>))
                          EXCEPT !.lookup_failed = TRUE]
            /\ db' = db
       ELSE /\ db' = DeleteConversation(db, conversation_id)
            /\ req' = Finished("ajax_delete_conversation", user, Response(200, <<>>))
    /\ UNCHANGED <<toolVars, provVars, mgrVars>>

\* ajax_rename_conversation (lines 697-716)
AjaxRenameConversation(user, conversation_id, valid_json, title) ==
    LET view == "ajax_rename_conversation"
        found == ConversationsOf(db, conversation_id, user)
        answered ==
            IF ~valid_json THEN Finished(view, user, Response(400, <<"I","n","v","a","l","i","d"," ","J","S","O","N">>))
            ELSE IF Falsy(title)
            THEN Finished(view, user, Response(400, <<"T","i","t","l","e"," ","i","s"," ","r","e","q","u","i","r","e","d">>))
            ELSE IF found = {}
            THEN [Finished(view, user, NotFoundResponse(view, <<"C","o","n","v","e","r","s","a","t","i","o","n">>))
                     EXCEPT !.lookup_failed = TRUE]
            ELSE Finished(view, user, Response(200, <<>>))
    IN  /\ AllIdle
        /\ req' = [answered EXCEPT !.input_missing = (valid_json /\ title = <<>>)]
        /\ db' = IF answered.response.status = 200
                 THEN UpdateConversation(db, conversation_id, title,
                          (CHOOSE c \in found : TRUE).model_used)
                 ELSE db
        /\ UNCHANGED <<toolVars, provVars, mgrVars>>

ProviderNames == {<<"f","o","u","n","d","r","y","_","l","o","c","a","l">>, <<"a","z","u","r","e","_","o","p","e","n","a","i">>}

\* switch_provider (lines 302-330). What get_user_ai_provider and
\* get_available_models do there is taken as their outcome: a listing, or an
\* exception.
SwitchProvider(user, provider_name, reply) ==
    LET custom == IF SettingsOf(db, user) = {} THEN FALSE
                  ELSE (CHOOSE s \in SettingsOf(db, user) : TRUE).custom
    IN  /\ AllIdle
        /\ Created(db) + SettingsRows(db, user) <= MaxRows
        /\ IF provider_name \notin ProviderNames
           THEN /\ req' = [Finished("switch_provider", user,
                               Response(400, <<"I","n","v","a","l","i","d"," ","p","r","o","v","i","d","e","r">>))
                              EXCEPT !.input_missing = TRUE]
                /\ db' = db
           ELSE /\ db' = SaveSettings(GetOrCreateSettings(db, user), user,
                                      provider_name, custom)
                /\ req' = Finished("switch_provider", user,
                              IF reply.ok THEN Response(200, <<>>)
                              ELSE Response(500, reply.error))
        /\ UNCHANGED <<toolVars, provVars, mgrVars>>

\* The response goes out.
RequestDone ==
    /\ req.pc = "done"
    /\ req' = ReqIdle
    /\ UNCHANGED <<db, toolVars, provVars, mgrVars>>

\* What the clients send.
ViewMessages == { <<>>, <<"h","e","l","l","o">>, <<"s","e","a","r","c","h"," ","f","o","r"," ","x">> }
ViewModels == { <<"p","h","i","-","4","-","m","i","n","i">> }
ConversationIds == 0..db.next_conv
FileIds == 0..db.next_file
Titles == { <<>>, <<"t">> }
SwitchTo == { <<>>, <<"o","p","e","n","a","i">>, <<"a","z","u","r","e","_","o","p","e","n","a","i">> }

(***************************************************************************)
(* AIProviderManager (chat/services/ai_provider.py) and                    *)
(* get_user_ai_provider (chat/views.py)                                    *)
(***************************************************************************)
\* Provider instances the process may come to construct.
MaxInstances == 2

\* The threads that serve requests.
Threads == {"t1", "t2"}

\* The environment of the process: AI_PROVIDER, whether AZURE_OPENAI_ENDPOINT
\* and AZURE_OPENAI_API_KEY are both set, and whether the Foundry Local
\* service can be started.
Envs ==
    [AI_PROVIDER : {<<>>, <<"o","p","e","n","a","i">>, <<"A","z","u","r","e","_","O","p","e","n","A","I">>, <<"f","o","u","n","d","r","y","_","l","o","c","a","l">>},
     azure : BOOLEAN, foundry : BOOLEAN]

PROVIDER_FOUNDRY_LOCAL == <<"f","o","u","n","d","r","y","_","l","o","c","a","l">>
PROVIDER_AZURE_OPENAI == <<"a","z","u","r","e","_","o","p","e","n","a","i">>

\* The class attributes at import: _providers = {}, _default_provider = None
\* (<<>> stands for None). next_instance numbers the instances constructed;
\* returned remembers, for each name, the instance that get_provider returned
\* last since the cache was cleared.
ManagerAtImport ==
    [providers |-> <<>>, default_provider |-> <<>>, next_instance |-> 1,
     returned |-> <<>>]

\* A provider object: owner is "env" for one built from the environment, and
\* the user for one built from the user's own endpoint and key.
Instance(id, provider_name, owner) ==
    [id |-> id, provider_name |-> provider_name, owner |-> owner]

NoInstance == Instance(0, <<>>, "none")

\* A default that follows the environment of the moment.
EnvDefaultName(m, e) ==
    IF lower(e.AI_PROVIDER) \in {PROVIDER_FOUNDRY_LOCAL, PROVIDER_AZURE_OPENAI}
    THEN lower(e.AI_PROVIDER)
    ELSE IF e.azure THEN PROVIDER_AZURE_OPENAI
    ELSE PROVIDER_FOUNDRY_LOCAL

\* get_default_provider_name (lines 347-364): the name it returns.
DefaultName(m, e) ==
    IF m.default_provider # <<>> THEN m.default_provider
    ELSE IF lower(e.AI_PROVIDER) \in {PROVIDER_FOUNDRY_LOCAL, PROVIDER_AZURE_OPENAI}
    THEN lower(e.AI_PROVIDER)
    ELSE IF e.azure THEN PROVIDER_AZURE_OPENAI
    ELSE PROVIDER_FOUNDRY_LOCAL

\* A lookup that finds nothing.
NeverCached(providers, provider_name) == FALSE

\* `provider_name in cls._providers`
Cached(providers, provider_name) == provider_name \in DOMAIN providers

\* A store that keeps the new entry only.
PutAlone(providers, provider_name, provider) ==
    [n \in {provider_name} |-> provider]

\* `cls._providers[provider_name] = provider`
Put(providers, provider_name, provider) ==
    [n \in DOMAIN providers \cup {provider_name} |->
        IF n = provider_name THEN provider ELSE providers[n]]

\* FoundryLocalProvider() and AzureOpenAIProvider() without arguments: whether
\* the constructor returns.
Constructs(provider_name, e) ==
    IF provider_name = PROVIDER_AZURE_OPENAI THEN e.azure ELSE e.foundry

ConstructsError(provider_name) ==
    IF provider_name = PROVIDER_AZURE_OPENAI
    THEN <<"A","z","u","r","e"," ","O","p","e","n","A","I"," ","e","n","d","p","o","i","n","t"," ","a","n","d"," ","A","P","I"," ","k","e","y"," ","a","r","e"," ","r","e","q","u","i","r","e","d">>
    ELSE <<"F","o","u","n","d","r","y"," ","L","o","c","a","l"," ","s","e","r","v","i","c","e"," ","d","i","d"," ","n","o","t"," ","s","t","a","r","t">>

\* One call of a thread. arg is the provider_name argument (<<>> for None),
\* name the name after the default is resolved, phase tells the first
\* get_ai_provider call of get_user_ai_provider from the one of its except
\* clauses, provider is the local variable of get_provider.
CallIdle ==
    [pc |-> "idle", op |-> "none", user |-> "none", arg |-> <<>>, name |-> <<>>,
     phase |-> "none", provider |-> NoInstance, result |-> NoInstance,
     value |-> <<>>, raised |-> FALSE, error |-> <<>>,
     lookups |-> 0, constructed |-> 0]

Quiet == \A t \in Threads : calls[t].pc = "idle"

\* Room for the instances the running calls may still construct.
Room == mgr.next_instance + Cardinality({t \in Threads : calls[t].pc # "idle"})
            <= MaxInstances

\* get_provider(provider_name) is called.
CallGetProvider(t, provider_name) ==
    /\ calls[t].pc = "idle"
    /\ \/ Room
       \/ Cached(mgr.providers, IF provider_name = <<>> THEN DefaultName(mgr, env)
                                ELSE provider_name)
    /\ calls' = [calls EXCEPT ![t] =
           [CallIdle EXCEPT !.pc = "lookup", !.op = "get_provider",
                            !.arg = provider_name]]
    /\ UNCHANGED <<env, mgr, toolVars, provVars, viewVars>>

\* A manager that keeps the instance of the user under the name of its
\* provider.
CustomInstanceCached(m, provider) ==
    [m EXCEPT !.next_instance = @ + 1,
              !.providers = Put(@, provider.provider_name, provider)]

\* Lines 43-49 of views.py: AzureOpenAIProvider(endpoint=, api_key=, ...) is
\* constructed and returned; the manager is not called.
CustomInstanceBuilt(m, provider) == [m EXCEPT !.next_instance = @ + 1]

\* get_user_ai_provider(user), lines 38-52 of views.py: the settings row is
\* read; the user's own endpoint and key give an instance of their own, any
\* other row goes to get_ai_provider(provider_name), no row to get_ai_provider().
CallGetUserAiProvider(t, user) ==
    LET rows == SettingsOf(db, user)
        settings == CHOOSE s \in rows : TRUE
        started == [CallIdle EXCEPT !.op = "get_user_ai_provider", !.user = user]
    IN  /\ calls[t].pc = "idle"
        /\ Room
        /\ IF rows = {}
           THEN /\ calls' = [calls EXCEPT ![t] =
                       [started EXCEPT !.pc = "lookup", !.phase = "fallback"]]
                /\ mgr' = mgr
           ELSE IF settings.ai_provider = PROVIDER_AZURE_OPENAI /\ settings.custom
           THEN /\ calls' = [calls EXCEPT ![t] =
                       [started EXCEPT !.pc = "ret", !.constructed = 1,
                            !.result = Instance(mgr.next_instance,
                                                PROVIDER_AZURE_OPENAI, user)]]
                /\ mgr' = CustomInstanceBuilt(mgr,
                              Instance(mgr.next_instance, PROVIDER_AZURE_OPENAI, user))
           ELSE /\ calls' = [calls EXCEPT ![t] =
                       [started EXCEPT !.pc = "lookup", !.phase = "first",
                                       !.arg = settings.ai_provider]]
                /\ mgr' = mgr
        /\ UNCHANGED <<env, toolVars, provVars, viewVars>>

\* An exception leaves get_provider: the except clause of
\* get_user_ai_provider (lines 54-58 of views.py) answers the first one with
\* get_ai_provider(); any other reaches the caller.
Raises(c, error) ==
    IF c.op = "get_user_ai_provider" /\ c.phase = "first"
    THEN [c EXCEPT !.pc = "lookup", !.phase = "fallback", !.arg = <<>>,
                   !.name = <<>>]
    ELSE [c EXCEPT !.pc = "ret", !.raised = TRUE, !.error = error]

\* get_provider, lines 378-383: the default name is resolved and remembered
\* when no name is given, then the cache is looked up; lines 385-391: an
\* unknown name raises.
MgrLookup(t) ==
    LET c == calls[t]
        provider_name == IF c.arg = <<>> THEN DefaultName(mgr, env) ELSE c.arg
        seen == [c EXCEPT !.name = provider_name, !.lookups = @ + 1]
        resolved == IF c.arg = <<>>
                    THEN [mgr EXCEPT !.default_provider = provider_name]
                    ELSE mgr
    IN  /\ c.pc = "lookup"
        /\ IF Cached(mgr.providers, provider_name)
           THEN /\ calls' = [calls EXCEPT ![t] =
                       [seen EXCEPT !.pc = "ret",
                                    !.result = mgr.providers[provider_name]]]
                /\ mgr' = [resolved EXCEPT !.returned =
                              Put(@, provider_name, mgr.providers[provider_name])]
           ELSE IF provider_name \in {PROVIDER_FOUNDRY_LOCAL, PROVIDER_AZURE_OPENAI}
           THEN /\ calls' = [calls EXCEPT ![t] = [seen EXCEPT !.pc = "construct"]]
                /\ mgr' = resolved
           ELSE /\ calls' = [calls EXCEPT ![t] =
                       Raises(seen, <<"U","n","k","n","o","w","n"," ","p","r","o","v","i","d","e","r",":"," ">> \o provider_name)]
                /\ mgr' = resolved
        /\ UNCHANGED <<env, toolVars, provVars, viewVars>>

\* Lines 386-389 and 396-412: the provider is constructed, or its
\* constructor raises.
MgrConstruct(t) ==
    LET c == calls[t]
    IN  /\ c.pc = "construct"
        /\ IF Constructs(c.name, env)
           THEN /\ calls' = [calls EXCEPT ![t] =
                       [c EXCEPT !.pc = "store", !.constructed = @ + 1,
                                 !.provider = Instance(mgr.next_instance, c.name, "env")]]
                /\ mgr' = [mgr EXCEPT !.next_instance = @ + 1]
           ELSE /\ calls' = [calls EXCEPT ![t] = Raises(c, ConstructsError(c.name))]
                /\ mgr' = mgr
        /\ UNCHANGED <<env, toolVars, provVars, viewVars>>

\* Lines 393-394: the instance is stored under its name and returned.
MgrStore(t) ==
    LET c == calls[t]
    IN  /\ c.pc = "store"
        /\ mgr' = [mgr EXCEPT !.providers = Put(@, c.name, c.provider),
                              !.returned = Put(@, c.name, c.provider)]
        /\ calls' = [calls EXCEPT ![t] = [c EXCEPT !.pc = "ret", !.result = c.provider]]
        /\ UNCHANGED <<env, toolVars, provVars, viewVars>>

\* get_default_provider_name (lines 347-364)
GetDefaultProviderName(t) ==
    /\ calls[t].pc = "idle"
    /\ mgr' = [mgr EXCEPT !.default_provider = DefaultName(mgr, env)]
    /\ calls' = [calls EXCEPT ![t] =
           [CallIdle EXCEPT !.pc = "ret", !.op = "get_default_provider_name",
                            !.value = DefaultName(mgr, env)]]
    /\ UNCHANGED <<env, toolVars, provVars, viewVars>>

\* is_provider_available (lines 414-429); importable: `import foundry_local`
\* succeeds.
Available(provider_name, e, importable) ==
    IF provider_name = PROVIDER_AZURE_OPENAI THEN e.azure
    ELSE IF provider_name = PROVIDER_FOUNDRY_LOCAL THEN importable
    ELSE FALSE

IsProviderAvailable(t, provider_name, importable) ==
    /\ calls[t].pc = "idle"
    /\ calls' = [calls EXCEPT ![t] =
           [CallIdle EXCEPT !.pc = "ret", !.op = "is_provider_available",
                            !.arg = provider_name,
                            !.value = <<Available(provider_name, env, importable)>>]]
    /\ UNCHANGED <<env, mgr, toolVars, provVars, viewVars>>

\* get_available_providers (lines 431-454)
GetAvailableProviders(t, importable) ==
    /\ calls[t].pc = "idle"
    /\ calls' = [calls EXCEPT ![t] =
           [CallIdle EXCEPT !.pc = "ret", !.op = "get_available_providers",
               !.value = << [id |-> PROVIDER_FOUNDRY_LOCAL,
                             available |-> Available(PROVIDER_FOUNDRY_LOCAL, env,
                                                     importable)],
                            [id |-> PROVIDER_AZURE_OPENAI,
                             available |-> Available(PROVIDER_AZURE_OPENAI, env,
                                                     importable)] >>]]
    /\ UNCHANGED <<env, mgr, toolVars, provVars, viewVars>>

\* clear_cache (lines 456-460)
ClearCache(t) ==
    /\ calls[t].pc = "idle"
    /\ mgr' = [mgr EXCEPT !.providers = <<>>, !.default_provider = <<>>,
                          !.returned = <<>>]
    /\ calls' = [calls EXCEPT ![t] =
           [CallIdle EXCEPT !.pc = "ret", !.op = "clear_cache"]]
    /\ UNCHANGED <<env, toolVars, provVars, viewVars>>

\* The call is over.
MgrReturn(t) ==
    /\ calls[t].pc = "ret"
    /\ calls' = [calls EXCEPT ![t] = CallIdle]
    /\ UNCHANGED <<env, mgr, toolVars, provVars, viewVars>>

\* The process is given another environment.
EnvChanges(e) ==
    /\ Quiet
    /\ e # env
    /\ env' = e
    /\ UNCHANGED <<mgr, calls, toolVars, provVars, viewVars>>

\* settings_view with POST (lines 152-169 of views.py): the row of the user is
\* created when there is none, the posted provider name is stored as it is
\* given, with the endpoint and key (custom: both are given).
SettingsPost(user, ai_provider, custom) ==
    /\ Quiet /\ req.pc = "idle"
    /\ Created(db) + SettingsRows(db, user) <= MaxRows
    /\ db' = SaveSettings(GetOrCreateSettings(db, user), user, ai_provider, custom)
    /\ db' # db
    /\ UNCHANGED <<req, mgrVars, toolVars, provVars>>

\* What the settings form may post as the provider.
PostedProviders == {PROVIDER_FOUNDRY_LOCAL, PROVIDER_AZURE_OPENAI, <<"o","p","e","n","a","i">>}

(***************************************************************************)
(* Direct calls of the tools.                                              *)
(***************************************************************************)
\* The code strings execute is called with directly.
Codes ==
    { <<"x","=","1">>, <<"o","s",".","s","y","s","t","e","m">>, <<"i","m","p","o","r","t"," ","s","u","b","p","r","o","c","e","s","s">>, <<"s","h","u","t","i","l",".","r","m","t","r","e","e">>, <<"e","v","a","l","(","1",")">>,
      <<"e","x","e","c">>, <<"c","o","m","p","i","l","e">>, <<"_","_","i","m","p","o","r","t","_","_">>, <<"s","u","b","p","r","o","c","e","s","s"," ","e","x","e","c">>, <<"o","s"," ","s","y","s","t","e","m">> }

\* The queries and limits search is called with directly.
Queries == { <<"m","a","r","s"," ","r","o","v","e","r">>, <<"w","h","a","t"," ","i","s"," ","t","h","e"," ","l","a","t","e","s","t">> }
MaxResultsArgs == {0, 1, 2, DEFAULT_MAX_RESULTS}

WebIdle ==
    [pc |-> "idle", query |-> <<>>, max_results |-> 0,
     reply |-> EngineReturns(<<>>), escaped |-> FALSE,
     result |-> SearchFailedRecord(<<>>, <<>>)]

\* search(query, max_results) is called and runs to its end.
CallSearch(query, max_results, reply) ==
    /\ AllIdle
    /\ web' = [pc |-> "ret", query |-> query, max_results |-> max_results,
               reply |-> reply,
               escaped |-> search(query, max_results, reply).escaped,
               result |-> search(query, max_results, reply).result]
    /\ UNCHANGED <<fs, exec, orch, provVars, viewVars, mgrVars>>

\* The caller takes the record.
SearchReturns ==
    /\ web.pc = "ret"
    /\ web' = WebIdle
    /\ UNCHANGED <<fs, exec, orch, provVars, viewVars, mgrVars>>

CallExecute(code) ==
    /\ AllIdle
    /\ Cardinality(fs) < MaxFiles
    /\ exec' = EnterExecute(code, "top")
    /\ UNCHANGED <<fs, orch, provVars, viewVars, mgrVars, web>>

\* The caller of a direct call takes the record.
ExecuteReturns ==
    /\ exec.pc = "ret" /\ exec.caller = "top"
    /\ exec' = ExecIdle
    /\ UNCHANGED <<fs, orch, provVars, viewVars, mgrVars, web>>

\* The messages process_with_tools is called with.
Messages ==
    { <<"h","e","l","l","o">>,
      <<"s","e","a","r","c","h"," ","t","h","e"," ","w","e","b"," ","f","o","r"," ","m","a","r","s">>,
      <<"W","h","a","t"," ","i","s"," ","C","U","R","R","E","N","T">>,
      <<"L","o","o","k"," ","U","p"," ","x"," ",BT,BT,BT,"p","y","t","h","o","n","\n","p","=","1","\n",BT,BT,BT>>,
      <<BT,BT,BT,"p","y","t","h","o","n","\n","x","=","1","\n",BT,BT,BT>>,
      <<"r","u","n"," ","t","h","i","s"," ","c","o","d","e"," ",BT,BT,BT,"p","y","t","h","o","n"," ","e","x","e","c","(","x",")",BT,BT,BT>>,
      <<"e","x","e","c","u","t","e"," ","i","t">>,
      <<BT,BT,BT,"p","y","t","h","o","n","\n"," ",BT,BT,BT>>,
      <<BT,BT,BT,"p","y","t","h","o","n","\n"," "," ","a","=","1","\n"," "," ","b","=","2","\n",BT,BT,BT>>,
      <<"t","o","d","a","y"," ",BT,BT,BT,"P","y","t","h","o","n","\n","x","=","1",BT,BT,BT>> }

CallProcessWithTools(message, ews, ece) ==
    /\ AllIdle
    /\ Cardinality(fs) < MaxFiles
    /\ orch' = EnterProcessWithTools(message, ews, ece, "top")
    /\ UNCHANGED <<fs, exec, provVars, viewVars, mgrVars, web>>

\* The caller of a direct call takes the result.
ProcessWithToolsReturns ==
    /\ orch.pc = "ret" /\ orch.caller = "top"
    /\ orch' = OrchIdle
    /\ UNCHANGED <<fs, exec, provVars, viewVars, mgrVars, web>>

InitTools ==
    /\ fs = {}
    /\ exec = ExecIdle
    /\ orch = OrchIdle
    /\ web = WebIdle

InitProv ==
    /\ catalog = [ok |-> TRUE, models |-> <<>>]
    /\ deployment = <<"g","p","t","-","4","o">>
    /\ call = NoCall

InitViews ==
    /\ db = EmptyDb
    /\ req = ReqIdle

\* The environment the process starts in, and the class attributes at import.
StartEnv == [AI_PROVIDER |-> <<>>, azure |-> FALSE, foundry |-> TRUE]

InitManager ==
    /\ env = StartEnv
    /\ mgr = ManagerAtImport
    /\ calls = [t \in Threads |-> CallIdle]

Init == InitTools /\ InitProv /\ InitViews /\ InitManager

Next ==
    \/ \E code \in Codes : CallExecute(code)
    \/ ExecuteReturns
    \/ \E message \in Messages, ews \in BOOLEAN, ece \in BOOLEAN :
         CallProcessWithTools(message, ews, ece)
    \/ ProcessWithToolsReturns
    \/ \E query \in Queries, max_results \in MaxResultsArgs, reply \in EngineReplies :
         CallSearch(query, max_results, reply)
    \/ SearchReturns
    \/ OrchWeb \/ OrchCode \/ OrchExecuted
    \/ ExecScan \/ ExecCreate \/ ExecWrite \/ ExecSpawn
    \/ ExecTick \/ ExecExit \/ ExecTimeout

Spec == Init /\ [][Next]_vars

NextProviders ==
    \/ \E deployment_name \in Deployments : AzureInit(deployment_name)
    \/ \E listing \in Catalogs : CatalogChanges(listing)
    \/ \E model \in ModelNames, stream \in BOOLEAN, iterated \in BOOLEAN,
          backend_ok \in BOOLEAN :
         AzureChatCompletion(model, stream, iterated, backend_ok)
    \/ \E text \in Texts, model \in ModelNames, backend_ok \in BOOLEAN :
         AzureSummarize(text, model, backend_ok)
    \/ \E list_ok \in BOOLEAN, backend_ok \in BOOLEAN :
         AzureIsServiceRunning(list_ok, backend_ok)
    \/ \E provider \in FoundryClasses, model \in ModelNames, stream \in BOOLEAN,
          iterated \in BOOLEAN, backend_ok \in BOOLEAN :
         FoundryChatCompletion(provider, model, stream, iterated, backend_ok)
    \/ \E provider \in FoundryClasses, text \in Texts, model \in ModelNames,
          backend_ok \in BOOLEAN :
         FoundrySummarize(provider, text, model, backend_ok)
    \/ \E provider \in FoundryClasses, alias_or_id \in ModelNames :
         ResolveModelId(provider, alias_or_id)
    \/ CallReturns

\* The provider layer on its own.
SpecProviders == Init /\ [][NextProviders]_vars

NextViews ==
    \/ \E view \in {"chat", "ajax_send_message"}, user \in Users,
          message \in ViewMessages, conversation_id \in ConversationIds,
          model \in ViewModels, ews \in BOOLEAN, ece \in BOOLEAN :
         /\ (conversation_id = 0 /\ message # <<>>) => user \in Creators
         /\ PostMessage(view, user, message, conversation_id, model, ews, ece)
    \/ PostMessageTools \/ PostMessageToolsDone \/ PostMessageModel
    \/ \E user \in Users, text \in Titles, file_id \in FileIds, reply \in ModelReplies :
         Summarize(user, text, file_id, reply)
    \/ \E view \in {"upload_file", "ajax_upload_file"}, user \in Users,
          has_file \in BOOLEAN, text_type \in BOOLEAN, decodable \in BOOLEAN,
          content \in Titles, conversation_id \in ConversationIds :
         /\ (has_file /\ decodable) => user \in Creators
         /\ Upload(view, user, has_file, text_type, decodable, content, conversation_id)
    \/ \E user \in Creators : AjaxNewConversation(user)
    \/ \E user \in Users, conversation_id \in 1..db.next_conv :
         AjaxDeleteConversation(user, conversation_id)
    \/ \E user \in Users, conversation_id \in 1..db.next_conv, valid_json \in BOOLEAN,
          title \in Titles :
         AjaxRenameConversation(user, conversation_id, valid_json, title)
    \/ \E user \in Users, provider_name \in SwitchTo, reply \in ModelReplies :
         /\ provider_name \in ProviderNames => user \in Creators
         /\ SwitchProvider(user, provider_name, reply)
    \/ RequestDone
    \/ OrchWeb \/ OrchCode

\* The messages of the chat requests that use the tools.
ToolMessages ==
    { <<"h","e","l","l","o">>, <<"l","o","o","k"," ","u","p"," ","m","a","r","s"," ",BT,BT,BT,"p","y","t","h","o","n","\n","x","=","1","\n",BT,BT,BT>> }

\* The rows that the requests to the REST endpoints may bring the store to.
MaxStoreRows == 5

\* Message.objects.filter(conversation__user=user), the queryset of
\* MessageViewSet (lines 236-239), as the ids of its rows.
MessageIdsOf(store, user) ==
    {store.messages[i].id : i \in
        {j \in 1..Len(store.messages) :
            \E c \in store.conversations :
                c.id = store.messages[j].conversation /\ c.user = user}}

\* serializer.save() on a stored message: the writable fields of
\* MessageSerializer (serializers.py 47-51) take the validated values.
UpdateMessage(store, message_id, conversation_id, role, content) ==
    [store EXCEPT
        !.messages = [i \in 1..Len(@) |->
            IF @[i].id = message_id
            THEN [@[i] EXCEPT !.conversation = conversation_id, !.role = role,
                              !.content = content]
            ELSE @[i]]]

RECURSIVE WithoutMessages(_, _)
\* queryset.delete(): the messages whose id is not among the deleted ones.
WithoutMessages(messages, ids) ==
    IF messages = <<>> THEN <<>>
    ELSE IF Head(messages).id \in ids
    THEN WithoutMessages(Tail(messages), ids)
    ELSE <<Head(messages)>> \o WithoutMessages(Tail(messages), ids)

\* The message with the id, of which there is one.
MessageById(store, message_id) ==
    store.messages[CHOOSE i \in 1..Len(store.messages) :
                       store.messages[i].id = message_id]

\* The conversation field of MessageSerializer is a primary-key field over
\* every conversation: a value is valid when a conversation has that id.
ValidConversation(store, conversation_id) ==
    \E c \in store.conversations : c.id = conversation_id

\* POST /messages/: MessageViewSet is a ModelViewSet with no perform_create of
\* its own (lines 231-239), so the validated data are saved as they are.
MessageCreate(user, conversation_id, role, content) ==
    /\ AllIdle
    /\ Created(db) < MaxStoreRows
    /\ IF ValidConversation(db, conversation_id) /\ content # <<>>
       THEN /\ db' = CreateMessage(db, conversation_id, role, content, None, None)
            /\ req' = [Finished("message_create", user, Response(201, <<>>))
                          EXCEPT !.conversation = conversation_id,
                                 !.user_message = db.next_msg]
       ELSE /\ db' = db
            /\ req' = Finished("message_create", user, Response(400, <<"I","n","v","a","l","i","d">>))
    /\ UNCHANGED <<toolVars, provVars, mgrVars>>

\* PUT and PATCH /messages/<id>/: get_object() looks the message up in
\* get_queryset() (lines 236-239); PATCH carries the content only.
MessageUpdate(user, message_id, partial, conversation_id, role, content) ==
    LET view == IF partial THEN "message_partial_update" ELSE "message_update"
    IN  /\ AllIdle
        /\ IF message_id \notin MessageIdsOf(db, user)
           THEN /\ db' = db
                /\ req' = [Finished(view, user, Response(404, <<"N","o","t"," ","f","o","u","n","d">>))
                              EXCEPT !.lookup_failed = TRUE]
           ELSE IF content = <<>> \/ (~partial /\ ~ValidConversation(db, conversation_id))
           THEN /\ db' = db
                /\ req' = Finished(view, user, Response(400, <<"I","n","v","a","l","i","d">>))
           ELSE LET old == MessageById(db, message_id)
                IN  /\ db' = IF partial
                             THEN UpdateMessage(db, message_id, old.conversation,
                                                old.role, content)
                             ELSE UpdateMessage(db, message_id, conversation_id,
                                                role, content)
                    /\ req' = [Finished(view, user, Response(200, <<>>))
                                  EXCEPT !.user_message = message_id]
        /\ UNCHANGED <<toolVars, provVars, mgrVars>>

\* DELETE /messages/<id>/
MessageDestroy(user, message_id) ==
    /\ AllIdle
    /\ IF message_id \notin MessageIdsOf(db, user)
       THEN /\ db' = db
            /\ req' = [Finished("message_destroy", user, Response(404, <<"N","o","t"," ","f","o","u","n","d">>))
                          EXCEPT !.lookup_failed = TRUE]
       ELSE /\ db' = [db EXCEPT !.messages = WithoutMessages(@, {message_id})]
            /\ req' = [Finished("message_destroy", user, Response(204, <<>>))
                          EXCEPT !.user_message = message_id]
    /\ UNCHANGED <<toolVars, provVars, mgrVars>>

\* ConversationViewSet.clear_messages (lines 223-228)
ClearMessages(user, conversation_id) ==
    /\ AllIdle
    /\ IF ConversationsOf(db, conversation_id, user) = {}
       THEN /\ db' = db
            /\ req' = [Finished("clear_messages", user, Response(404, <<"N","o","t"," ","f","o","u","n","d">>))
                          EXCEPT !.lookup_failed = TRUE]
       ELSE /\ db' = [db EXCEPT !.messages =
                         SelectMessages(@, {c.id : c \in db.conversations}
                                               \ {conversation_id})]
            /\ req' = [Finished("clear_messages", user, Response(200, <<>>))
                          EXCEPT !.conversation = conversation_id]
    /\ UNCHANGED <<toolVars, provVars, mgrVars>>

\* DELETE /conversations/<id>/: get_object() over get_queryset() (lines
\* 217-218), then the cascade of the foreign keys.
ConversationDestroy(user, conversation_id) ==
    /\ AllIdle
    /\ IF ConversationsOf(db, conversation_id, user) = {}
       THEN /\ db' = db
            /\ req' = [Finished("conversation_destroy", user,
                                Response(404, <<"N","o","t"," ","f","o","u","n","d">>))
                          EXCEPT !.lookup_failed = TRUE]
       ELSE /\ db' = DeleteConversation(db, conversation_id)
            /\ req' = [Finished("conversation_destroy", user, Response(204, <<>>))
                          EXCEPT !.conversation = conversation_id]
    /\ UNCHANGED <<toolVars, provVars, mgrVars>>

\* The values the clients of the REST endpoints send.
Roles == {"user", "assistant"}
Contents == { <<>>, <<"h","i">> }
MessageIds == 1..db.next_msg

\* The requests to the REST endpoints of messages and conversations, with the
\* page's own deletion and renaming of conversations.
NextApi ==
    \/ \E user \in Users, conversation_id \in 1..db.next_conv, role \in Roles,
          content \in Contents :
         MessageCreate(user, conversation_id, role, content)
    \/ \E user \in Users, message_id \in MessageIds, partial \in BOOLEAN,
          conversation_id \in 1..db.next_conv, role \in Roles, content \in Contents :
         MessageUpdate(user, message_id, partial, conversation_id, role, content)
    \/ \E user \in Users, message_id \in MessageIds : MessageDestroy(user, message_id)
    \/ \E user \in Users, conversation_id \in 1..db.next_conv :
         ClearMessages(user, conversation_id)
    \/ \E user \in Users, conversation_id \in 1..db.next_conv :
         ConversationDestroy(user, conversation_id)
    \/ \E user \in Users, conversation_id \in 1..db.next_conv :
         AjaxDeleteConversation(user, conversation_id)
    \/ \E user \in Users, conversation_id \in 1..db.next_conv, valid_json \in BOOLEAN,
          title \in Titles :
         AjaxRenameConversation(user, conversation_id, valid_json, title)
    \/ RequestDone

\* The store of a deployment in which alice and bob have one conversation
\* each, with one message in it.
StoreOfTwoUsers ==
    CreateMessage(
        CreateMessage(
            CreateConversation(
                CreateConversation(EmptyDb, "alice", <<"a">>, <<"p","h","i","-","4","-","m","i","n","i">>),
                "bob", <<"b">>, <<"p","h","i","-","4","-","m","i","n","i">>),
            1, "user", <<"h","e","l","l","o">>, None, None),
        2, "user", <<"s","e","c","r","e","t">>, None, None)

InitApi ==
    /\ InitTools /\ InitProv /\ InitManager
    /\ db = StoreOfTwoUsers
    /\ req = ReqIdle

SpecApi == InitApi /\ [][NextApi]_vars

\* chat and ajax_send_message with the tools they start.
NextChat ==
    \/ \E view \in {"chat", "ajax_send_message"}, user \in Creators,
          message \in ToolMessages, conversation_id \in ConversationIds,
          model \in ViewModels, ews \in BOOLEAN, ece \in BOOLEAN :
         PostMessageWithin(MaxChatRows, view, user, message, conversation_id, model,
                           ews, ece)
    \/ PostMessageTools \/ PostMessageToolsDone \/ PostMessageModel
    \/ RequestDone
    \/ OrchWeb \/ OrchCode \/ OrchExecuted
    \/ ExecScan \/ ExecCreate \/ ExecWrite \/ ExecSpawn
    \/ ExecTick \/ ExecExit \/ ExecTimeout

\* The store of a deployment in which alice has had one exchange, answered by
\* another model.
StoreWithHistory ==
    GetOrCreateSettings(
        CreateMessage(
            CreateMessage(CreateConversation(EmptyDb, "alice", <<"h","e","l","l","o">>, <<"g","p","t","-","4","o">>),
                          1, "user", <<"h","e","l","l","o">>, None, None),
            1, "assistant", <<"H","i","!">>, None, None),
        "alice")

InitChat ==
    /\ InitTools /\ InitProv /\ InitManager
    /\ db = StoreWithHistory
    /\ req = ReqIdle

SpecChat == InitChat /\ [][NextChat]_vars

\* The calls of the manager, one after the other.
NextManager ==
    \/ \E t \in Threads, provider_name \in PostedProviders \cup {<<>>} :
         Quiet /\ CallGetProvider(t, provider_name)
    \/ \E t \in Threads, user \in Users : Quiet /\ CallGetUserAiProvider(t, user)
    \/ \E t \in Threads : MgrLookup(t)
    \/ \E t \in Threads : MgrConstruct(t)
    \/ \E t \in Threads : MgrStore(t)
    \/ \E t \in Threads : Quiet /\ GetDefaultProviderName(t)
    \/ \E t \in Threads, provider_name \in PostedProviders, importable \in BOOLEAN :
         Quiet /\ IsProviderAvailable(t, provider_name, importable)
    \/ \E t \in Threads, importable \in BOOLEAN :
         Quiet /\ GetAvailableProviders(t, importable)
    \/ \E t \in Threads : Quiet /\ ClearCache(t)
    \/ \E t \in Threads : MgrReturn(t)
    \/ \E e \in Envs : EnvChanges(e)
    \/ \E user \in Creators, ai_provider \in PostedProviders, custom \in BOOLEAN :
         SettingsPost(user, ai_provider, custom)

SpecManager == Init /\ [][NextManager]_vars

\* get_provider(provider_name) is called by a thread while the other thread
\* may be inside a call: the class takes no lock (lines 344-345, 366-394).
CallGetProviderOverlapping(t, provider_name) ==
    /\ calls[t].pc = "idle"
    /\ mgr.next_instance <= MaxInstances
    /\ calls' = [calls EXCEPT ![t] =
           [CallIdle EXCEPT !.pc = "lookup", !.op = "get_provider",
                            !.arg = provider_name]]
    /\ UNCHANGED <<env, mgr, toolVars, provVars, viewVars>>

\* get_provider calls of two threads, in every interleaving of their steps,
\* in a process in which nothing calls clear_cache.
NextOverlapping ==
    \/ \E t \in Threads, provider_name \in PostedProviders \cup {<<>>} :
         CallGetProviderOverlapping(t, provider_name)
    \/ \E t \in Threads : MgrLookup(t)
    \/ \E t \in Threads : MgrConstruct(t)
    \/ \E t \in Threads : MgrStore(t)
    \/ \E t \in Threads : MgrReturn(t)
    \/ \E e \in Envs : EnvChanges(e)

SpecOverlapping == Init /\ [][NextOverlapping]_vars

\* The request handlers over the store, with the tools they call.
SpecViews == Init /\ [][NextViews]_vars

\* The clock runs and the operating system answers: a step of execute that can
\* be taken is taken.
FairSpec == Spec /\ WF_vars(ExecStep)

(***************************************************************************)
(* Properties of the tools.                                                *)
(***************************************************************************)
\* C1: process_with_tools calls WebSearchAgent.search only if enable_web_search
\* is true and CodeExecutionAgent.execute only if enable_code_execution is
\* true; a tool whose flag is false never runs and never has a record in
\* tool_calls, whatever the detected intent.
ToolsRunOnlyWhenEnabled ==
    orch.pc # "idle" =>
        /\ orch.searches > 0 => orch.enable_web_search
        /\ orch.executions > 0 => orch.enable_code_execution
        /\ (exec.pc # "idle" /\ exec.caller = "orch") => orch.enable_code_execution
        /\ \A k \in 1..Len(orch.tool_calls) :
              /\ orch.tool_calls[k].tool = "web_search" => orch.enable_web_search
              /\ orch.tool_calls[k].tool = "code_execution"
                    => orch.enable_code_execution

\* A call has returned in which both intents were detected, web search was
\* disabled and did not run, and code execution was enabled and ran.
DisabledToolSkipped ==
    /\ orch.pc = "ret"
    /\ detect_intent(orch.message).web_search
    /\ ~orch.enable_web_search /\ orch.enable_code_execution
    /\ orch.searches = 0 /\ orch.executions = 1
    /\ Len(orch.tool_calls) = 1

\* C2: when enable_web_search and enable_code_execution are both false,
\* process_with_tools returns an empty context and empty tool_calls and
\* tool_results.
NoFlagsNoTools ==
    (orch.pc = "ret" /\ ~orch.enable_web_search /\ ~orch.enable_code_execution)
        => /\ orch.context = <<>>
           /\ orch.tool_calls = <<>>
           /\ orch.tool_results = <<>>

\* A call with both flags false has returned for a message with both intents
\* and a code block.
NoFlagsReturned ==
    /\ orch.pc = "ret"
    /\ ~orch.enable_web_search /\ ~orch.enable_code_execution
    /\ detect_intent(orch.message).web_search
    /\ detect_intent(orch.message).code_execution
    /\ extract_code(orch.message).code # <<>>

HasRestricted(code) ==
    \E k \in 1..Len(RESTRICTED_IMPORTS) : Contains(code, RESTRICTED_IMPORTS[k])

\* C3: for a code string that contains an entry of RESTRICTED_IMPORTS, execute
\* returns a record with success false and an error naming a restricted entry
\* the code contains (the first in list order), creates no temporary file and
\* starts no subprocess.
RestrictedCodeRefused ==
    (exec.pc # "idle" /\ HasRestricted(exec.code)) =>
        /\ exec.pc \in {"scan", "ret"}
        /\ exec.created = 0 /\ exec.spawned = 0
        /\ exec.pc = "ret" =>
              /\ ~exec.result.success
              /\ ~exec.escaped
              /\ exec.result.code = exec.code
              /\ \E k \in 1..Len(RESTRICTED_IMPORTS) :
                    /\ Contains(exec.code, RESTRICTED_IMPORTS[k])
                    /\ \A j \in 1..(k - 1) : ~Contains(exec.code, RESTRICTED_IMPORTS[j])
                    /\ exec.result.error =
                          <<"R","e","s","t","r","i","c","t","e","d"," ","o","p","e","r","a","t","i","o","n"," ","d","e","t","e","c","t","e","d",":"," ">> \o RESTRICTED_IMPORTS[k]

\* execute has refused a code string that holds two restricted entries inside
\* other text, naming the one that comes first in the list.
RestrictedRefusalReturned ==
    /\ exec.pc = "ret"
    /\ exec.code = <<"s","u","b","p","r","o","c","e","s","s"," ","e","x","e","c">>
    /\ exec.result.error = <<"R","e","s","t","r","i","c","t","e","d"," ","o","p","e","r","a","t","i","o","n"," ","d","e","t","e","c","t","e","d",":"," ","s","u","b","p","r","o","c","e","s","s">>
    /\ fs = {}

\* C4: a temporary file that execute created no longer exists when execute
\* returns, on every outcome.
TempFileRemovedOnReturn ==
    (exec.pc = "ret" /\ exec.created > 0) => exec.f_name \notin fs

\* C5: every call of execute returns; when the child has not finished after
\* TIMEOUT_SECONDS the record has success false and the timed-out message, and
\* no exception escapes execute.
ExecuteAlwaysReturns ==
    /\ [](exec.pc = "ret" => ~exec.escaped)
    /\ []((exec.pc = "ret" /\ exec.elapsed >= TIMEOUT_SECONDS) =>
            /\ ~exec.result.success
            /\ exec.result.error = <<"C","o","d","e"," ","e","x","e","c","u","t","i","o","n"," ","t","i","m","e","d"," ","o","u","t"," ","a","f","t","e","r"," ","1","0"," ","s","e","c","o","n","d","s">>
            /\ exec.result.output = <<>>)
    /\ [](exec.pc = "wait" => exec.elapsed <= TIMEOUT_SECONDS)
    /\ (exec.pc # "idle") ~> (exec.pc = "ret")

\* execute has returned the timed-out record after the child ran for the whole
\* timeout.
TimedOutReturned ==
    /\ exec.pc = "ret"
    /\ exec.spawned = 1
    /\ exec.elapsed = TIMEOUT_SECONDS
    /\ exec.result.error = <<"C","o","d","e"," ","e","x","e","c","u","t","i","o","n"," ","t","i","m","e","d"," ","o","u","t"," ","a","f","t","e","r"," ","1","0"," ","s","e","c","o","n","d","s">>
(***************************************************************************)
(* Properties of the providers.                                            *)
(***************************************************************************)
\* A name of the reasoning families: it starts with o1, o3 or o4 in any case.
ReasoningName(name) ==
    \E prefix \in {<<"o","1">>, <<"o","3">>, <<"o","4">>} : startswith(lower(name), prefix)

Carries(request, param) == param \in DOMAIN request.params

\* C6 as stated: for every provider, no outgoing completion request for a model
\* whose name starts with o1, o3 or o4 carries a temperature parameter.
NoTemperatureForReasoningModels ==
    \A k \in 1..Len(call.sent) :
        ReasoningName(call.sent[k].params.model)
            => ~Carries(call.sent[k], "temperature")

\* C6, amended: no outgoing completion request of AzureOpenAIProvider, blocking,
\* streaming or probe, for a model whose name starts with o1, o3 or o4 (in any
\* case) carries a temperature parameter.
AzureNoTemperatureForReasoningModels ==
    \A k \in 1..Len(call.sent) :
        (call.sent[k].provider = "azure_openai"
            /\ ReasoningName(call.sent[k].params.model))
            => ~Carries(call.sent[k], "temperature")

\* The Azure provider has sent a streaming request for a model named in upper
\* case, O3, and one without a temperature.
AzureReasoningStreamSent ==
    /\ call.provider = "azure_openai" /\ call.stream
    /\ Len(call.sent) = 1
    /\ call.sent[1].params.model = <<"O","3">>
    /\ "stream" \in DOMAIN call.sent[1].params
    /\ ~Carries(call.sent[1], "temperature")

\* C7: every outgoing completion request of AzureOpenAIProvider carries exactly
\* one token-limit parameter: max_completion_tokens when the target deployment
\* is a reasoning model and max_tokens otherwise; in chat_completion, in
\* _stream_completion and in the probe of is_service_running.
AzureOneTokenLimit ==
    \A k \in 1..Len(call.sent) :
        call.sent[k].provider = "azure_openai" =>
            IF ReasoningName(call.sent[k].params.model)
            THEN /\ Carries(call.sent[k], "max_completion_tokens")
                 /\ ~Carries(call.sent[k], "max_tokens")
            ELSE /\ Carries(call.sent[k], "max_tokens")
                 /\ ~Carries(call.sent[k], "max_completion_tokens")

\* C8: _get_model_id and get_model_id return the id of the first listed model
\* whose alias or id equals the requested name; with no match and a non-empty
\* list the id of the first listed model; with an empty list, also when the
\* listing failed, they raise 'No models available'.
ModelIdResolution ==
    call.op = "get_model_id" =>
        LET listed == IF catalog.ok THEN catalog.models ELSE <<>>
            AliasOf(m) == IF "alias" \in DOMAIN m THEN m.alias ELSE m.id
            matches == {i \in 1..Len(listed) :
                            AliasOf(listed[i]) = call.asked \/ listed[i].id = call.asked}
        IN  IF matches # {}
            THEN /\ ~call.raised
                 /\ call.resolved.id =
                      listed[CHOOSE i \in matches : \A j \in matches : i <= j].id
            ELSE IF Len(listed) > 0
            THEN ~call.raised /\ call.resolved.id = listed[1].id
            ELSE call.raised /\ call.resolved.error = <<"N","o"," ","m","o","d","e","l","s"," ","a","v","a","i","l","a","b","l","e">>

\* _get_model_id has resolved a name that is the id of the second listed model
\* and no alias, to that model.
SecondModelResolvedById ==
    /\ call.op = "get_model_id" /\ call.provider = "foundry_local"
    /\ catalog.models = << [id |-> <<"o","1","-","l","o","c","a","l">>, alias |-> <<"o","1">>],
                           [id |-> <<"p","h","i","-","g","p","u">>, alias |-> <<"p","h","i">>] >>
    /\ call.asked = <<"p","h","i","-","g","p","u">>
    /\ call.resolved.id = <<"p","h","i","-","g","p","u">>

(***************************************************************************)
(* The request handlers                                                    *)
(***************************************************************************)
PostViews == {"chat", "ajax_send_message"}

\* The message of the request in progress is a stored user message of its
\* conversation.
UserMessageStored ==
    \E i \in 1..Len(db.messages) :
        /\ db.messages[i].id = req.user_message
        /\ db.messages[i].conversation = req.conversation
        /\ db.messages[i].role = "user"
        /\ db.messages[i].content = req.message

\* No assistant message was stored after the message of the request.
NoAssistantMessageStored ==
    \A i \in 1..Len(db.messages) :
        (db.messages[i].conversation = req.conversation
            /\ db.messages[i].role = "assistant")
        => db.messages[i].id < req.user_message

\* C9: in chat and ajax_send_message the user's message is stored before the
\* tools and the model are called; when the model call fails the request ends
\* with an error response, the user message is still stored in the
\* conversation and no assistant message was stored for the request.
UserMessageSavedBeforeModel ==
    /\ [](/\ (orch.pc # "idle" /\ orch.caller = "view") => UserMessageStored
          /\ (req.view \in PostViews /\ req.model_called > 0) => UserMessageStored
          /\ (req.view \in PostViews /\ req.pc = "done" /\ req.model_failed)
             => /\ req.response.status >= 400
                /\ req.response.error # <<>>
                /\ UserMessageStored
                /\ NoAssistantMessageStored
                /\ req.assistant_message = 0)
    /\ [][(\/ (orch.pc = "idle" /\ orch'.pc # "idle" /\ orch'.caller = "view")
           \/ (req'.view \in PostViews /\ req'.model_called > req.model_called))
          => UserMessageStored]_vars

\* An ajax_send_message request whose web search ran and whose model call
\* failed has answered.
ModelFailedAfterTools ==
    /\ req.pc = "done" /\ req.view = "ajax_send_message"
    /\ req.model_failed /\ req.model_called = 1
    /\ req.tool_calls # None
    /\ req.response.status = 500
    /\ UserMessageStored

\* C10: a request that names a conversation id or a file id that does not
\* exist for the requesting user is answered with 404.
MissingIdGets404 ==
    (req.pc = "done" /\ req.lookup_failed) => req.response.status = 404

\* C11: a request that lacks its required input (an empty or absent message
\* for chat and ajax_send_message, an empty title for
\* ajax_rename_conversation, neither text nor file_id for summarize, no file
\* for the upload handlers, an unknown provider for switch_provider) is
\* answered with an error in the same step, and that step changes no row of
\* the store and calls no tool and no model.
MissingInputRejected ==
    [][(req.pc = "idle" /\ req'.pc # "idle" /\ req'.input_missing)
       => /\ req'.pc = "done"
          /\ req'.response.status = 400
          /\ req'.response.error # <<>>
          /\ db' = db
          /\ orch' = orch /\ exec' = exec /\ fs' = fs
          /\ req'.model_called = 0]_vars

\* A switch_provider request for an unknown provider, by a user whose settings
\* row exists, was rejected.
UnknownProviderRejected ==
    /\ req.pc = "done" /\ req.view = "switch_provider"
    /\ req.input_missing
    /\ req.response.status = 400
    /\ SettingsOf(db, req.user) # {}

(***************************************************************************)
(* The provider manager                                                    *)
(***************************************************************************)
\* C12: whenever a UserSettings row exists for the user, the provider that
\* get_user_ai_provider returns has the provider_name that the row names
\* (stated for the rows that name one of the two providers).
UserSettingsProviderFirst ==
    \A t \in Threads :
        LET c == calls[t]
            rows == SettingsOf(db, c.user)
        IN  (/\ c.pc = "ret" /\ c.op = "get_user_ai_provider" /\ ~c.raised
             /\ rows # {}
             /\ (CHOOSE s \in rows : TRUE).ai_provider \in ProviderNames)
            => c.result.provider_name = (CHOOSE s \in rows : TRUE).ai_provider

\* get_provider returns an instance to thread t in this step.
GetProviderReturns(t) ==
    /\ calls[t].pc \in {"lookup", "store"}
    /\ calls'[t].pc = "ret" /\ ~calls'[t].raised

\* Thread t calls clear_cache in this step.
ClearCacheRuns(t) == calls[t].pc = "idle" /\ calls'[t].op = "clear_cache"

\* C13: when the calls come one after the other, get_provider constructs an
\* instance only when it is the first to return one for the name since the
\* start or the last clear_cache, any later call for the name returns that
\* same instance without constructing, and clear_cache leaves an empty cache
\* and no remembered default name, so that the next get_provider constructs
\* anew.
ProviderConstructedOnce ==
    [][\A t \in Threads :
        /\ (calls[t].pc = "construct" /\ calls'[t].pc = "store")
           => calls[t].name \notin DOMAIN mgr.returned
        /\ GetProviderReturns(t)
           => IF calls'[t].name \in DOMAIN mgr.returned
              THEN /\ calls'[t].result = mgr.returned[calls'[t].name]
                   /\ calls'[t].constructed = 0
              ELSE /\ calls'[t].result.id = mgr.next_instance - 1
                   /\ calls'[t].constructed = 1
        /\ ClearCacheRuns(t)
           => /\ mgr'.providers = <<>>
              /\ mgr'.default_provider = <<>>]_vars

\* The second instance, constructed after a clear_cache, came out of the cache
\* in a later get_provider call.
SecondInstanceFromCache ==
    \E t \in Threads :
        /\ calls[t].pc = "ret" /\ calls[t].op = "get_provider" /\ ~calls[t].raised
        /\ calls[t].constructed = 0
        /\ calls[t].result.id = 2
        /\ calls[t].result.provider_name = PROVIDER_FOUNDRY_LOCAL

\* C14: when the calls come one after the other, every step that is not a
\* clear_cache keeps each entry of the cache under its name with the same
\* instance.
CacheAppendOnly ==
    [][(\A t \in Threads : ~ClearCacheRuns(t))
       => \A n \in DOMAIN mgr.providers :
             /\ n \in DOMAIN mgr'.providers
             /\ mgr'.providers[n] = mgr.providers[n]]_vars

\* A get_provider call has added the second entry and the first is still
\* there.
SecondEntryAdded ==
    \E t \in Threads :
        /\ calls[t].pc = "ret" /\ calls[t].op = "get_provider"
        /\ calls[t].constructed = 1
        /\ calls[t].result.id = 2
        /\ Cardinality(DOMAIN mgr.providers) = 2

\* The record of a failed search is the last of the tool results.
FailedSearchRecorded(tool_calls, tool_results) ==
    /\ Len(tool_calls) >= 1 /\ Len(tool_results) = Len(tool_calls)
    /\ tool_calls[1].tool = "web_search"
    /\ ~tool_results[1].success
    /\ tool_results[1].error # <<>>
    /\ tool_results[1].results = <<>>

\* C15: no exception leaves search: a search whose engine call failed gives
\* process_with_tools a record with success false, the error text and no
\* results; the chat request goes on to the model call, once, and what it
\* keeps as tool_calls and tool_results, and stores with the assistant
\* message, holds the failed search.
FailedSearchGoesOn ==
    /\ ~orch.escaped
    /\ (orch.pc \in {"code", "exec", "ret"} /\ orch.search_failed)
       => FailedSearchRecorded(orch.tool_calls, orch.tool_results)
    /\ (req.pc \in {"model", "done"} /\ req.search_failed)
       => /\ req.tool_calls # None /\ req.tool_results # None
          /\ FailedSearchRecorded(req.tool_calls[1], req.tool_results[1])
    /\ (req.pc = "done" /\ req.search_failed)
       => /\ req.model_called = 1
          /\ req.response.status = 200
             => \E m \in 1..Len(db.messages) :
                  /\ db.messages[m].id = req.assistant_message
                  /\ db.messages[m].tool_calls = req.tool_calls
                  /\ db.messages[m].tool_results = req.tool_results

\* A chat request whose search failed has its answer from the model.
AnsweredAfterFailedSearch ==
    /\ req.pc = "done" /\ req.search_failed
    /\ req.model_called = 1 /\ req.response.status = 200

\* C16: no result of a successful search comes from an engine result whose
\* processing raised or whose page could not be fetched, and a result
\* that follows such a one and passes the tests is still returned.
FailedResultsSkipped ==
    (web.pc = "ret" /\ web.result.success)
    => \A k \in 1..Len(web.result.results) :
         \A i \in 1..Len(web.reply.results) :
            web.reply.results[i].href = web.result.results[k].url
            => /\ ~web.reply.results[i].malformed
               /\ web.reply.results[i].page.ok

\* C17: a successful search returns at most max_results results, in the
\* order of the engine, each with a full_content of more than 100 characters
\* that passed both tests, and count is the number of results.
AtMostMaxResults ==
    (web.pc = "ret" /\ web.result.success)
    => LET results == web.result.results
           engine == web.reply.results
           pos(k) == CHOOSE i \in 1..Len(engine) : engine[i].href = results[k].url
       IN  /\ Len(results) <= web.max_results
           /\ web.result.count = Len(results)
           /\ \A k \in 1..Len(results) :
                /\ \E i \in 1..Len(engine) : engine[i].href = results[k].url
                /\ Len(results[k].full_content) > 100
                /\ ~_is_irrelevant_result(results[k].url, results[k].title,
                                          results[k].snippet)
                /\ _is_content_relevant(results[k].full_content, web.query)
           /\ \A k \in 1..(Len(results) - 1) : pos(k) < pos(k + 1)

\* C18: the output and the error of every record that execute returns are
\* each at most MAX_OUTPUT_LENGTH characters long.
OutputWithinLimit ==
    exec.pc = "ret"
    => /\ Len(exec.result.output) <= MAX_OUTPUT_LENGTH
       /\ Len(exec.result.error) <= MAX_OUTPUT_LENGTH

\* C19: every record that execute returns has the fields success, output,
\* error, return_code and code, its code is the input, and its success is true
\* exactly when the child process ran and exited with return code 0.
RecordHasAllFields ==
    exec.pc = "ret"
    => /\ DOMAIN exec.result = {"success", "output", "error", "return_code", "code"}
       /\ exec.result.code = exec.code
       /\ exec.result.success
          <=> /\ exec.spawned = 1
              /\ "return_code" \in DOMAIN exec.result
              /\ exec.result.return_code = 0

\* C20: for a message that holds, in any letter case, one of the web search
\* phrases, process_with_tools with web search enabled and code execution
\* disabled returns exactly one tool call, tagged web_search, with one result.
OneWebSearchCall ==
    (/\ orch.pc = "ret"
     /\ orch.enable_web_search /\ ~orch.enable_code_execution
     /\ \E k \in 1..Len(WebSearchPhrases) :
           Contains(lower(orch.message), WebSearchPhrases[k]))
    => /\ Len(orch.tool_calls) = 1
       /\ orch.tool_calls[1].tool = "web_search"
       /\ Len(orch.tool_results) = 1
       /\ orch.searches = 1 /\ orch.executions = 0

\* A message with a search phrase and a python block came back with the one
\* web search call.
SearchedWithoutRunningBlock ==
    /\ orch.pc = "ret"
    /\ orch.enable_web_search /\ ~orch.enable_code_execution
    /\ Contains(orch.message, <<BT,BT,BT,"p","y","t","h","o","n">>)
    /\ Len(orch.tool_calls) = 1 /\ orch.tool_calls[1].tool = "web_search"

\* The text between the first opening fence with the python tag and the next
\* closing fence of a message that has both.
FirstBlock(message) ==
    LET a == index(message, <<BT,BT,BT,"p","y","t","h","o","n">>) + Len(<<BT,BT,BT,"p","y","t","h","o","n">>)
        t == CHOOSE t \in a..Len(message) :
                /\ MatchAt(message, <<BT,BT,BT>>, t)
                /\ \A u \in a..(t - 1) : ~MatchAt(message, <<BT,BT,BT>>, u)
    IN  SubSeq(message, a, t - 1)

\* The block without the rest of the line of its opening fence: the blanks
\* after the tag and the line break that ends the line.
DropFenceLine(block) ==
    LET rest == {i \in 1..Len(block) : block[i] \notin {" ", "\t"}}
        k == IF rest = {} THEN Len(block) + 1
             ELSE CHOOSE i \in rest : \A j \in rest : i <= j
    IN  IF k <= Len(block) /\ block[k] = "\n"
        THEN SubSeq(block, k + 1, Len(block))
        ELSE SubSeq(block, k, Len(block))

\* The block without the blanks before its closing fence and the line break
\* before them.
DropClosingLine(block) ==
    LET rest == {i \in 1..Len(block) : block[i] \notin {" ", "\t"}}
        k == IF rest = {} THEN 0
             ELSE CHOOSE i \in rest : \A j \in rest : j <= i
    IN  IF k >= 1 /\ block[k] = "\n"
        THEN SubSeq(block, 1, k - 1)
        ELSE SubSeq(block, 1, k)

\* What may be called the content of a block: the text between the fences,
\* with or without the remainders of the two fence lines.
BlockContents(block) ==
    { block, DropFenceLine(block), DropClosingLine(block),
      DropClosingLine(DropFenceLine(block)) }

HasPythonBlock(message) ==
    /\ Contains(message, <<BT,BT,BT,"p","y","t","h","o","n">>)
    /\ \E t \in (index(message, <<BT,BT,BT,"p","y","t","h","o","n">>) + Len(<<BT,BT,BT,"p","y","t","h","o","n">>))..Len(message) :
          MatchAt(message, <<BT,BT,BT>>, t)

\* C21: for a message with a fenced python block, process_with_tools with code
\* execution enabled returns exactly one code_execution call, and its input
\* and the code of its result are the content of the first block, character
\* for character.
FirstBlockExecuted ==
    (orch.pc = "ret" /\ orch.enable_code_execution /\ HasPythonBlock(orch.message))
    => LET runs == {i \in 1..Len(orch.tool_calls) :
                        orch.tool_calls[i].tool = "code_execution"}
       IN  /\ Cardinality(runs) = 1
           /\ \A i \in runs :
                /\ orch.tool_calls[i].input \in BlockContents(FirstBlock(orch.message))
                /\ orch.tool_results[i].code = orch.tool_calls[i].input

\* C22: within one chat or ajax_send_message request the search engine is
\* asked at most once, at most one child process is started and
\* chat_completion is called at most once, whatever fails.
NothingRetried ==
    /\ orch.searches <= 1 /\ orch.executions <= 1
    /\ exec.spawned <= 1 /\ orch.spawned + exec.spawned <= 1
    /\ req.searches + orch.searches <= 1
    /\ req.spawned + orch.spawned + exec.spawned <= 1
    /\ req.model_called <= 1 /\ Len(req.sent) = req.model_called

\* A request whose search failed, whose child process timed out and whose
\* model call failed has ended with one try of each.
AllThreeFailedOnce ==
    /\ req.pc = "done" /\ req.model_failed /\ req.search_failed
    /\ req.searches = 1 /\ req.spawned = 1 /\ req.model_called = 1
    /\ \E i \in 1..Len(req.tool_results[1]) :
          /\ req.tool_calls[1][i].tool = "code_execution"
          /\ startswith(req.tool_results[1][i].error, <<"C","o","d","e"," ","e","x","e","c","u","t","i","o","n"," ","t","i","m","e","d"," ","o","u","t">>)

\* The model is called in this step.
ModelCallStarts == req.pc = "model" /\ req'.pc = "done"

\* C23: the list that chat and ajax_send_message send to the model is the
\* system prompt, then the stored messages of the conversation in creation
\* order, the last of them the user message of this request, then, exactly
\* when the tool context is not empty, one system message that ends with the
\* tool context; and no tool is running when the model is called.
MessageListInOrder ==
    [][ModelCallStarts
       => LET messages == req'.sent[Len(req'.sent)]
              history == SelectSeq(db.messages,
                                   LAMBDA m : m.conversation = req.conversation)
              n == Len(history)
              extra == IF req.tool_context # <<>> THEN 1 ELSE 0
              last == messages[Len(messages)]
          IN  /\ Len(messages) = 1 + n + extra
              /\ messages[1] = [role |-> "system", content |-> SystemPrompt]
              /\ \A i \in 1..n :
                    messages[i + 1] = [role |-> history[i].role,
                                       content |-> history[i].content]
              /\ \A i \in 1..(n - 1) : history[i].id < history[i + 1].id
              /\ n >= 1 /\ history[n].id = req.user_message
              /\ history[n].role = "user" /\ history[n].content = req.message
              /\ extra = 1
                 => /\ last.role = "system"
                    /\ Len(last.content) > Len(req.tool_context)
                    /\ SubSeq(last.content,
                              Len(last.content) - Len(req.tool_context) + 1,
                              Len(last.content)) = req.tool_context
              /\ orch.pc = "idle" /\ exec.pc = "idle"]_vars

\* A request in the conversation with history has sent the system prompt, the
\* three stored messages and the context of a search and an execution.
HistoryAndToolsSent ==
    /\ req.pc = "done" /\ req.model_called = 1
    /\ Len(req.sent[1]) = 5
    /\ req.searches = 1 /\ req.spawned = 1

\* C29: in chat and ajax_send_message an assistant message is stored, and the
\* conversation's model_used is changed, only in a step in which the model
\* call returned; and every stored assistant message has tool_calls and
\* tool_results both null, or both lists of the same length that is not 0.
AssistantOnlyAfterSuccess ==
    [][/\ (\/ Len(db'.messages) > Len(db.messages)
              /\ db'.messages[Len(db'.messages)].role = "assistant"
           \/ \E c \in db.conversations, e \in db'.conversations :
                 c.id = e.id /\ c.model_used # e.model_used)
          => /\ ModelCallStarts
             /\ req'.model_called = 1 /\ ~req'.model_failed
             /\ req'.response.status = 200
       /\ \A i \in 1..Len(db'.messages) :
             db'.messages[i].role = "assistant"
             => LET tool_calls == db'.messages[i].tool_calls
                    tool_results == db'.messages[i].tool_results
                IN  \/ tool_calls = None /\ tool_results = None
                    \/ /\ tool_calls # None /\ tool_results # None
                       /\ Len(tool_calls[1]) = Len(tool_results[1])
                       /\ Len(tool_calls[1]) >= 1]_vars

\* An answer is stored with the records of two tools, and the conversation
\* has the model of the request.
AnswerStoredWithTwoTools ==
    /\ req.pc = "done" /\ req.response.status = 200
    /\ \E i \in 1..Len(db.messages) :
          /\ db.messages[i].id = req.assistant_message
          /\ db.messages[i].tool_calls # None
          /\ Len(db.messages[i].tool_calls[1]) = 2
    /\ \E c \in db.conversations :
          c.id = req.conversation /\ c.model_used = req.model


\* The stored message with the id, if the store has one.
StoredMessage(store, message_id) ==
    {store.messages[i] : i \in {j \in 1..Len(store.messages) :
                                   store.messages[j].id = message_id}}

\* C24: a stored message keeps its role, content, tool_calls, tool_results and
\* conversation in every step, and when a step removes it, the step removes
\* its conversation as well.
MessagesImmutable ==
    [][\A i \in 1..Len(db.messages) :
          LET m == db.messages[i]
          IN  IF StoredMessage(db', m.id) # {}
              THEN StoredMessage(db', m.id) = {m}
              ELSE ~\E c \in db'.conversations : c.id = m.conversation]_vars

\* The user who owns the conversation of the message.
OwnerOf(store, m) == {c.user : c \in {d \in store.conversations : d.id = m.conversation}}

\* C26: every message that a request creates or changes is, after the request,
\* in a conversation of the user who sent the request, and every message that
\* a request removes was in one.
OnlyOwnMessagesTouched ==
    [][/\ \A i \in 1..Len(db'.messages) :
             LET m == db'.messages[i]
             IN  StoredMessage(db, m.id) # {m} => OwnerOf(db', m) = {req'.user}
       /\ \A i \in 1..Len(db.messages) :
             LET m == db.messages[i]
             IN  StoredMessage(db', m.id) # {m} => OwnerOf(db, m) = {req'.user}]_vars

\* C25: the lists that process_with_tools returns have the same length, at
\* most 2; the i-th result is the record of the i-th call; a web_search call
\* comes before a code_execution call; no tool is called twice; and the
\* context is empty exactly when no tool was called.
ToolListsPaired ==
    (orch.pc = "ret" /\ ~orch.escaped)
    => LET tool_calls == orch.tool_calls
           tool_results == orch.tool_results
           n == Len(tool_calls)
       IN  /\ Len(tool_results) = n /\ n <= 2
           /\ \A i \in 1..n :
                 \/ /\ tool_calls[i].tool = "web_search"
                    /\ "query" \in DOMAIN tool_results[i]
                    /\ tool_results[i].query = tool_calls[i].input
                 \/ /\ tool_calls[i].tool = "code_execution"
                    /\ "code" \in DOMAIN tool_results[i]
                    /\ tool_results[i].code = tool_calls[i].input
           /\ \A i \in 1..n, j \in 1..n :
                 i < j => /\ tool_calls[i].tool = "web_search"
                          /\ tool_calls[j].tool = "code_execution"
           /\ (orch.context = <<>>) <=> (n = 0)

\* process_with_tools has returned two calls, the records of a failed search
\* and of a refused or failed execution.
BothToolsFailedAndListed ==
    /\ orch.pc = "ret" /\ ~orch.escaped
    /\ Len(orch.tool_calls) = 2 /\ Len(orch.tool_results) = 2
    /\ ~orch.tool_results[1].success /\ ~orch.tool_results[2].success

\* C27: when get_provider calls of two threads for the same name have both
\* returned, in a process in which nothing calls clear_cache, they have
\* returned the same instance and at most one of them constructed one.
OverlappingCallsShareInstance ==
    \A t \in Threads, u \in Threads :
        (/\ t # u
         /\ calls[t].pc = "ret" /\ calls[t].op = "get_provider" /\ ~calls[t].raised
         /\ calls[u].pc = "ret" /\ calls[u].op = "get_provider" /\ ~calls[u].raised
         /\ calls[t].name = calls[u].name)
        => /\ calls[t].result = calls[u].result
           /\ calls[t].constructed + calls[u].constructed <= 1

\* C28: the cache holds, under the names foundry_local and azure_openai only,
\* instances built from the environment, and the instance a call returns was
\* built from the environment or from the settings of the user of the call.
CustomInstanceNeverShared ==
    /\ \A n \in DOMAIN mgr.providers :
          /\ n \in {PROVIDER_FOUNDRY_LOCAL, PROVIDER_AZURE_OPENAI}
          /\ mgr.providers[n].owner = "env"
          /\ mgr.providers[n].provider_name = n
    /\ \A t \in Threads :
          (calls[t].pc = "ret" /\ ~calls[t].raised
           /\ calls[t].op \in {"get_provider", "get_user_ai_provider"})
          => calls[t].result.owner \in {"env", calls[t].user}

\* A user has got an instance built from their own endpoint and key while the
\* cache holds the Azure instance of the environment, which is another one.
OwnInstanceBesideCached ==
    \E t \in Threads :
        /\ calls[t].pc = "ret" /\ calls[t].op = "get_user_ai_provider"
        /\ ~calls[t].raised
        /\ calls[t].result.owner = calls[t].user
        /\ PROVIDER_AZURE_OPENAI \in DOMAIN mgr.providers
        /\ mgr.providers[PROVIDER_AZURE_OPENAI] # calls[t].result

\* Thread t's get_provider fails in this step: it raises, or the except
\* clause of get_user_ai_provider takes what it raised.
GetProviderFails(t) ==
    /\ calls[t].pc \in {"lookup", "construct"}
    /\ \/ calls'[t].pc = "ret" /\ calls'[t].raised
       \/ calls[t].phase = "first" /\ calls'[t].phase = "fallback"

\* C30: a get_provider call that fails leaves the cache as it was, without an
\* entry for the name; and a default name, once resolved, stays and is what
\* get_default_provider_name returns, whatever the environment becomes, until
\* clear_cache runs.
FailureKeepsCacheAndDefaultSticks ==
    [][\A t \in Threads :
        /\ GetProviderFails(t)
           => /\ mgr'.providers = mgr.providers
              /\ IF calls[t].pc = "construct" THEN calls[t].name \notin DOMAIN mgr'.providers
                 ELSE ~\E n \in DOMAIN mgr'.providers :
                         n \notin {PROVIDER_FOUNDRY_LOCAL, PROVIDER_AZURE_OPENAI}
        /\ (mgr.default_provider # <<>> /\ \A u \in Threads : ~ClearCacheRuns(u))
           => /\ mgr'.default_provider = mgr.default_provider
              /\ (calls[t].pc = "idle" /\ calls'[t].op = "get_default_provider_name")
                 => calls'[t].value = mgr.default_provider
              /\ (calls[t].pc = "lookup" /\ calls[t].arg = <<>>
                  /\ calls'[t].name # <<>>)
                 => calls'[t].name = mgr.default_provider]_vars

\* A get_provider call has failed beside a filled cache, and
\* get_default_provider_name has since returned a name that the environment of
\* the moment would not give.
FailedBesideStickyDefault ==
    \E t \in Threads, u \in Threads :
        /\ calls[t].pc = "ret" /\ calls[t].op = "get_provider" /\ calls[t].raised
        /\ calls[u].pc = "idle"
        /\ mgr.providers # <<>>
        /\ mgr.default_provider # <<>>
        /\ mgr.default_provider # EnvDefaultName(mgr, env)

====
